---- MODULE Spec2Model ----
(***************************************************************************)
(* Circuit consistency engine of LibrePCB: one ComponentInstance with its  *)
(* ComponentSignalInstances, the NetSignals they bind to, the symbols,     *)
(* devices, pins and pads that register with them, and the ERC messages    *)
(* that follow every mutation.                                             *)
(*                                                                         *)
(* Every public method is one action.  A method is first written as an     *)
(* operator from a state record to a result [st, err]; the action commits  *)
(* the result.  Exceptions are the value err: "LogicError", "RuntimeError" *)
(* or NoError.                                                             *)
(***************************************************************************)
EXTENDS Integers, Sequences, FiniteSets, TLC

\* ------------------------------------------------------------------ bounds
NumNets == 2
NumDevices == 2
NumSchematics == 2
NumElements == 3
MaxCycles == 2
MaxComposites == 2
MaxEditors == 3

\* ------------------------------------------------------------- universes
Nets == 1..NumNets
NoNet == 0
Devices == 1..NumDevices
Schematics == 1..NumSchematics
\* Symbol variant item uuids; item 4 belongs to no symbol variant.
Items == {1, 2, 3, 4}
\* A symbol object: the variant item it instantiates and its schematic.
Symbols == [item : Items, schematic : Schematics]
\* mRegisteredSymbols maps each item uuid it contains to a symbol; NoSymbol
\* marks the uuids it does not contain.
NoSymbol == [item |-> 0, schematic |-> 0]
RegisteredItems(registered) == {u \in DOMAIN registered : registered[u] # NoSymbol}
RegisteredSymbolValues(registered) == {registered[u] : u \in RegisteredItems(registered)}
NetNames == {"VCC", "PWR"}
CmpNames == {"U1", "U2"}
CmpValues == {"", "10k"}
AttrKeys == {"KEY"}
AttrValues == {"VCC", "PWR"}
\* An AttributeList maps each key it contains to a value; NoAttr marks the
\* keys it does not contain.
NoAttr == "<none>"
AttributeLists == [AttrKeys -> AttrValues \cup {NoAttr}]
AttrContains(attrs, key) == key \in DOMAIN attrs /\ attrs[key] # NoAttr

NoError == "ok"
LogicError == "LogicError"
RuntimeError == "RuntimeError"

\* --------------------------------------------------------------- library
\* Text with placeholders: a sequence of literals and variables.
Lit(s) == [lit |-> s]
Var(ns, key) == [ns |-> ns, key |-> key]
IsVar(tok) == "key" \in DOMAIN tok

\* The library components a ComponentInstance can be created from; their
\* signals cover the kinds the ERC rules distinguish.  symbItems is the
\* symbol variant's item list, in order, with isRequired.
LibComponentA ==
  [id |-> "A", schematicOnly |-> FALSE, symbVar |-> 1,
   signals |-> << [name |-> "IN", required |-> TRUE, forced |-> TRUE,
                   forcedNetName |-> <<Lit("VCC")>>],
                  [name |-> "OUT", required |-> FALSE, forced |-> FALSE,
                   forcedNetName |-> <<>>] >>,
   symbItems |-> << [uuid |-> 1, required |-> TRUE],
                    [uuid |-> 2, required |-> TRUE],
                    [uuid |-> 3, required |-> FALSE] >>]
LibComponentB ==
  [id |-> "B", schematicOnly |-> TRUE, symbVar |-> 1,
   signals |-> << [name |-> "IN", required |-> FALSE, forced |-> TRUE,
                   forcedNetName |-> <<Var("", "KEY")>>],
                  [name |-> "OUT", required |-> TRUE, forced |-> FALSE,
                   forcedNetName |-> <<>>] >>,
   symbItems |-> << [uuid |-> 3, required |-> FALSE],
                    [uuid |-> 1, required |-> TRUE] >>]
LibComponents == {LibComponentA, LibComponentB}
NumSignals == Len(LibComponentA.signals)
Signals == 1..NumSignals
\* One symbol pin (of signal 1) and one footprint pad (of the last signal).
Pins == {1}
Pads == {1}
PinSignal(p) == 1
PadSignal(q) == NumSignals

\* library::ComponentSymbolVariantItem::isRequired of any item uuid
ItemIsRequired(uuid) == uuid \in {1, 2}

\* ----------------------------------------------------------------- state
VARIABLES
  mUuid,                    \* ComponentInstance::mUuid
  mLibComponent,            \* ComponentInstance: library component (immutable)
  mCompSymbVar,             \* ComponentInstance::mCompSymbVar, by its uuid
  mIsAddedToCircuit,        \* ComponentInstance::mIsAddedToCircuit
  mName,                    \* ComponentInstance::mName
  mValue,                   \* ComponentInstance::mValue
  mAttributes,              \* ComponentInstance::mAttributes
  mRegisteredSymbols,       \* item uuid -> symbol
  mRegisteredDevices,       \* list of devices
  mErcMsgCmp,               \* the two ERC messages of the component
  sigIsAddedToCircuit,      \* per signal: mIsAddedToCircuit
  sigNetSignal,             \* per signal: mNetSignal (NoNet = nullptr)
  sigRegisteredSymbolPins,  \* per signal: list of pins
  sigRegisteredFootprintPads, \* per signal: list of pads
  mErcMsgSig,               \* per signal: its two ERC messages
  netName,                  \* per net: NetSignal name
  netIsAddedToCircuit,      \* per net: the net is part of the circuit
  netRegisteredComponentSignals, \* per net: registered signal instances
  connections,              \* per signal, per net: nameChanged connections
  pinNetPoint,              \* per pin: a net point is attached
  padIsUsed,                \* per pad: the pad is connected
  mList,                    \* CmdListElementInsert::mList, the list object
  cmds,                     \* the commands called directly, by identity
  stackCommands,            \* CommandStack: the pushed commands, in order
  stackCursor,              \* CommandStack: number of commands left of the cursor
  groupFrames,              \* composite commands in execution: executed children
  groupBefore,              \* the list when the outermost composite started
  mOpenProjectEditors,      \* ControlPanel: map key -> project editor
  projectEditors,           \* per project editor: its state, its project's path
  mOpenLibraryEditors,      \* ControlPanel: library -> library editor
  libraryEditors,           \* per library editor: its state
  running,                  \* the application process has not crashed
  events,                   \* change events emitted by the last call
  lastCall                  \* the last call: method, arguments, exception

cmpVars == <<mUuid, mLibComponent, mCompSymbVar, mIsAddedToCircuit, mName,
             mValue, mAttributes, mRegisteredSymbols, mRegisteredDevices,
             mErcMsgCmp>>
sigVars == <<sigIsAddedToCircuit, sigNetSignal, sigRegisteredSymbolPins,
             sigRegisteredFootprintPads, mErcMsgSig>>
netVars == <<netName, netIsAddedToCircuit, netRegisteredComponentSignals,
             connections>>
envVars == <<pinNetPoint, padIsUsed>>
cmdVars == <<mList, cmds, stackCommands, stackCursor>>
groupVars == <<groupFrames, groupBefore>>
panelVars == <<mOpenProjectEditors, projectEditors, mOpenLibraryEditors,
               libraryEditors, running>>
vars == <<cmpVars, sigVars, netVars, envVars, cmdVars, groupVars, panelVars,
          events, lastCall>>

\* The current state as a record, with no event emitted yet.
Cur ==
  [uuid |-> mUuid, lib |-> mLibComponent, symbVar |-> mCompSymbVar,
   added |-> mIsAddedToCircuit, name |-> mName,
   value |-> mValue, attrs |-> mAttributes, regSymbols |-> mRegisteredSymbols,
   regDevices |-> mRegisteredDevices, ercCmp |-> mErcMsgCmp,
   sigAdded |-> sigIsAddedToCircuit, sigNet |-> sigNetSignal,
   sigPins |-> sigRegisteredSymbolPins, sigPads |-> sigRegisteredFootprintPads,
   ercSig |-> mErcMsgSig, netName |-> netName, netAdded |-> netIsAddedToCircuit,
   netReg |-> netRegisteredComponentSignals, conn |-> connections,
   pinNetPoint |-> pinNetPoint, padIsUsed |-> padIsUsed, events |-> <<>>]

Ok(st) == [st |-> st, err |-> NoError]
Throw(st, e) == [st |-> st, err |-> e]

\* Commit the result r of the call `call`.
Commit(r, call) ==
  /\ mUuid' = r.st.uuid
  /\ mLibComponent' = r.st.lib
  /\ mCompSymbVar' = r.st.symbVar
  /\ mIsAddedToCircuit' = r.st.added
  /\ mName' = r.st.name
  /\ mValue' = r.st.value
  /\ mAttributes' = r.st.attrs
  /\ mRegisteredSymbols' = r.st.regSymbols
  /\ mRegisteredDevices' = r.st.regDevices
  /\ mErcMsgCmp' = r.st.ercCmp
  /\ sigIsAddedToCircuit' = r.st.sigAdded
  /\ sigNetSignal' = r.st.sigNet
  /\ sigRegisteredSymbolPins' = r.st.sigPins
  /\ sigRegisteredFootprintPads' = r.st.sigPads
  /\ mErcMsgSig' = r.st.ercSig
  /\ netName' = r.st.netName
  /\ netIsAddedToCircuit' = r.st.netAdded
  /\ netRegisteredComponentSignals' = r.st.netReg
  /\ connections' = r.st.conn
  /\ pinNetPoint' = r.st.pinNetPoint
  /\ padIsUsed' = r.st.padIsUsed
  /\ events' = r.st.events
  /\ lastCall' = [call EXCEPT !.err = r.err]
  /\ UNCHANGED <<cmdVars, groupVars, panelVars>>

Call(op, obj, arg) == [op |-> op, obj |-> obj, arg |-> arg, err |-> NoError]

\* ------------------------------------------------- attribute substitution
\* ComponentInstance::getAttributeValue: [found, value].  The project (the
\* parent scope) defines no attributes here.
GetAttributeValue(st, attrNS, attrKey, passToParents) ==
  IF (attrNS = "CMP" \/ attrNS = "") /\ attrKey = "NAME"
    THEN [found |-> TRUE, value |-> st.name]
  ELSE IF (attrNS = "CMP" \/ attrNS = "") /\ attrKey = "VALUE"
    THEN [found |-> TRUE, value |-> st.value]
  ELSE IF (attrNS = "CMP" \/ attrNS = "") /\ AttrContains(st.attrs, attrKey)
    THEN [found |-> TRUE, value |-> st.attrs[attrKey]]
  ELSE [found |-> FALSE, value |-> ""]

\* The text of a placeholder that stays unsubstituted.
PlaceholderText(tok) ==
  IF tok.ns = "" THEN "${" \o tok.key \o "}"
  ELSE "${" \o tok.ns \o "::" \o tok.key \o "}"

\* IF_AttributeProvider::replaceVariablesWithAttributes: every placeholder
\* that resolves is replaced by its value, the others stay as they are.
RECURSIVE ReplaceVariablesWithAttributes(_, _, _)
ReplaceVariablesWithAttributes(st, text, passToParents) ==
  IF text = <<>> THEN ""
  ELSE LET tok == Head(text)
           rest == ReplaceVariablesWithAttributes(st, Tail(text), passToParents)
       IN IF IsVar(tok)
          THEN LET a == GetAttributeValue(st, tok.ns, tok.key, passToParents)
               IN (IF a.found THEN a.value ELSE PlaceholderText(tok)) \o rest
          ELSE tok.lit \o rest

\* ------------------------------------------------ ComponentSignalInstance
CompSignal(st, s) == st.lib.signals[s]

IsNetSignalNameForced(st, s) == CompSignal(st, s).forced

GetForcedNetSignalName(st, s) ==
  ReplaceVariablesWithAttributes(st, CompSignal(st, s).forcedNetName, FALSE)

SigGetRegisteredElementsCount(st, s) ==
  Len(st.sigPins[s]) + Len(st.sigPads[s])

\* ComponentSignalInstance::isUsed (declared in the header)
SigIsUsed(st, s) == SigGetRegisteredElementsCount(st, s) > 0

ArePinsOrPadsUsed(st, s) ==
  \/ \E i \in 1..Len(st.sigPins[s]) : st.pinNetPoint[st.sigPins[s][i]]
  \/ \E i \in 1..Len(st.sigPads[s]) : st.padIsUsed[st.sigPads[s][i]]

\* Faulty variant of ConflictVisible: an unbound signal counts as a conflict.
ConflictVisibleUnboundShown(st, s) ==
  /\ st.sigAdded[s]
  /\ IsNetSignalNameForced(st, s)
  /\ IF st.sigNet[s] # NoNet
     THEN GetForcedNetSignalName(st, s) # st.netName[st.sigNet[s]]
     ELSE TRUE

\* Visibility of the forced-net-name conflict message.
ConflictVisible(st, s) ==
  /\ st.sigAdded[s]
  /\ IsNetSignalNameForced(st, s)
  /\ IF st.sigNet[s] # NoNet
     THEN GetForcedNetSignalName(st, s) # st.netName[st.sigNet[s]]
     ELSE FALSE

\* Visibility of the unconnected-required-signal message.
UnconnectedVisible(st, s) ==
  st.sigAdded[s] /\ st.sigNet[s] = NoNet /\ CompSignal(st, s).required

\* ComponentSignalInstance::updateErcMessages.  A message text is the tuple
\* of the arguments put into its format string.
SigUpdateErcMessages(st, s) ==
  [st EXCEPT !.ercSig[s] =
    [unconnected |->
       [msg |-> <<CompSignal(st, s).name, st.name>>,
        visible |-> UnconnectedVisible(st, s)],
     conflict |->
       [msg |-> <<(IF st.sigNet[s] # NoNet THEN st.netName[st.sigNet[s]] ELSE ""),
                  GetForcedNetSignalName(st, s),
                  CompSignal(st, s).name, st.name>>,
        visible |-> ConflictVisible(st, s)]]]

\* ------------------------------------------------------------- NetSignal
\* NetSignal::registerComponentSignal: refused by a net that is not part
\* of the circuit, and for a signal that is registered already.
NetRegisterComponentSignal(st, n, s) ==
  IF ~st.netAdded[n] \/ s \in st.netReg[n]
  THEN Throw(st, LogicError)
  ELSE Ok([st EXCEPT !.netReg[n] = @ \cup {s}])

NetUnregisterComponentSignal(st, n, s) ==
  IF ~st.netAdded[n] \/ s \notin st.netReg[n]
  THEN Throw(st, LogicError)
  ELSE Ok([st EXCEPT !.netReg[n] = @ \ {s}])

\* QObject::connect / disconnect of NetSignal::nameChanged to
\* ComponentSignalInstance::netSignalNameChanged
Connect(st, n, s) == [st EXCEPT !.conn[s][n] = @ + 1]
Disconnect(st, n, s) == [st EXCEPT !.conn[s][n] = 0]

Emit(st, ev, src) == [st EXCEPT !.events = Append(@, [ev |-> ev, src |-> src])]

\* Faulty variant of netSignalNameChanged: the slot does nothing.
NetSignalNameChangedIgnored(st, s) == st

\* ComponentSignalInstance::netSignalNameChanged
NetSignalNameChanged(st, s) == SigUpdateErcMessages(st, s)

\* Deliver nameChanged to the connected signal instances `receivers`.
RECURSIVE DeliverNameChanged(_, _)
DeliverNameChanged(st, receivers) ==
  IF receivers = {} THEN st
  ELSE LET s == CHOOSE x \in receivers : \A y \in receivers : x <= y
       IN DeliverNameChanged(NetSignalNameChanged(st, s), receivers \ {s})

\* NetSignal::setName: store the name, then emit nameChanged.
NetSetName(st, n, name) ==
  IF name = st.netName[n] THEN Ok(st)
  ELSE LET st1 == [st EXCEPT !.netName[n] = name]
           st2 == Emit(st1, "nameChanged", n)
       IN Ok(DeliverNameChanged(st2, {s \in Signals : st.conn[s][n] > 0}))

\* NetSignal::addToCircuit / removeFromCircuit
NetAddToCircuit(st, n) ==
  IF st.netAdded[n] THEN Throw(st, LogicError)
  ELSE Ok([st EXCEPT !.netAdded[n] = TRUE])

NetRemoveFromCircuit(st, n) ==
  IF ~st.netAdded[n] THEN Throw(st, LogicError)
  ELSE IF st.netReg[n] # {} THEN Throw(st, RuntimeError)
  ELSE Ok([st EXCEPT !.netAdded[n] = FALSE])

\* ---------------------------- ComponentSignalInstance: general methods
SigAddToCircuit(st, s) ==
  IF st.sigAdded[s] \/ SigIsUsed(st, s) THEN Throw(st, LogicError)
  ELSE LET r == IF st.sigNet[s] # NoNet
                THEN NetRegisterComponentSignal(st, st.sigNet[s], s)
                ELSE Ok(st)
       IN IF r.err # NoError THEN Throw(st, r.err)
          ELSE Ok(SigUpdateErcMessages([r.st EXCEPT !.sigAdded[s] = TRUE], s))

\* Faulty variant of removeFromCircuit: the ERC messages are not updated.
SigRemoveFromCircuitNoErcUpdate(st, s) ==
  IF ~st.sigAdded[s] THEN Throw(st, LogicError)
  ELSE IF SigIsUsed(st, s) THEN Throw(st, RuntimeError)
  ELSE LET r == IF st.sigNet[s] # NoNet
                THEN NetUnregisterComponentSignal(st, st.sigNet[s], s)
                ELSE Ok(st)
       IN IF r.err # NoError THEN Throw(st, r.err)
          ELSE Ok([r.st EXCEPT !.sigAdded[s] = FALSE])

SigRemoveFromCircuit(st, s) ==
  IF ~st.sigAdded[s] THEN Throw(st, LogicError)
  ELSE IF SigIsUsed(st, s) THEN Throw(st, RuntimeError)
  ELSE LET r == IF st.sigNet[s] # NoNet
                THEN NetUnregisterComponentSignal(st, st.sigNet[s], s)
                ELSE Ok(st)
       IN IF r.err # NoError THEN Throw(st, r.err)
          ELSE Ok(SigUpdateErcMessages([r.st EXCEPT !.sigAdded[s] = FALSE], s))

Remove(seq, x) ==
  LET i == CHOOSE j \in 1..Len(seq) : seq[j] = x /\ \A k \in 1..(j-1) : seq[k] # x
  IN SubSeq(seq, 1, i - 1) \o SubSeq(seq, i + 1, Len(seq))
Contains(seq, x) == \E i \in 1..Len(seq) : seq[i] = x

SigRegisterSymbolPin(st, s, pin) ==
  IF ~st.sigAdded[s] \/ Contains(st.sigPins[s], pin) THEN Throw(st, LogicError)
  ELSE Ok([st EXCEPT !.sigPins[s] = Append(@, pin)])

SigUnregisterSymbolPin(st, s, pin) ==
  IF ~st.sigAdded[s] \/ ~Contains(st.sigPins[s], pin) THEN Throw(st, LogicError)
  ELSE Ok([st EXCEPT !.sigPins[s] = Remove(@, pin)])

\* Faulty variant of registerFootprintPad: the added flag is not checked.
SigRegisterFootprintPadNoAddedCheck(st, s, pad) ==
  IF Contains(st.sigPads[s], pad) THEN Throw(st, LogicError)
  ELSE Ok([st EXCEPT !.sigPads[s] = Append(@, pad)])

SigRegisterFootprintPad(st, s, pad) ==
  IF ~st.sigAdded[s] \/ Contains(st.sigPads[s], pad) THEN Throw(st, LogicError)
  ELSE Ok([st EXCEPT !.sigPads[s] = Append(@, pad)])

SigUnregisterFootprintPad(st, s, pad) ==
  IF ~st.sigAdded[s] \/ ~Contains(st.sigPads[s], pad) THEN Throw(st, LogicError)
  ELSE Ok([st EXCEPT !.sigPads[s] = Remove(@, pad)])

\* --------------------------------------------------------- ScopeGuardList
\* A guard is the compensating closure registered with sgl.add.
GuardSigRemoveFromCircuit(s) == [kind |-> "removeFromCircuit", s |-> s, n |-> NoNet]
GuardSigAddToCircuit(s) == [kind |-> "addToCircuit", s |-> s, n |-> NoNet]
\* setNetSignal's closures; the first reads mNetSignal when it runs.
GuardRestoreOldNet(s) == [kind |-> "restoreOldNet", s |-> s, n |-> NoNet]
GuardUndoNewNet(s, n) == [kind |-> "undoNewNet", s |-> s, n |-> n]

\* Run one closure; an exception ends the closure where it was thrown.
RunGuard(st, g) ==
  CASE g.kind = "removeFromCircuit" -> SigRemoveFromCircuit(st, g.s).st
    [] g.kind = "addToCircuit" -> SigAddToCircuit(st, g.s).st
    [] g.kind = "restoreOldNet" ->
         LET r == NetRegisterComponentSignal(st, st.sigNet[g.s], g.s)
         IN IF r.err # NoError THEN r.st ELSE Connect(r.st, st.sigNet[g.s], g.s)
    [] g.kind = "undoNewNet" ->
         LET r == NetUnregisterComponentSignal(st, g.n, g.s)
         IN IF r.err # NoError THEN r.st ELSE Disconnect(r.st, g.n, g.s)

\* ~ScopeGuardList without dismiss(): the closures run in reverse order.
RECURSIVE RunScopeGuardList(_, _)
RunScopeGuardList(st, sgl) ==
  IF sgl = <<>> THEN st
  ELSE RunScopeGuardList(RunGuard(st, sgl[Len(sgl)]), SubSeq(sgl, 1, Len(sgl) - 1))

\* ------------------------------ ComponentSignalInstance::setNetSignal
\* Faulty variant of setNetSignal: no ScopeGuardList, a failed registration
\* with the new net leaves the old one unregistered.
SetNetSignalNoRollback(st, s, netsignal) ==
  IF netsignal = st.sigNet[s] THEN Ok(st)
  ELSE IF ~st.sigAdded[s] THEN Throw(st, LogicError)
  ELSE IF ArePinsOrPadsUsed(st, s) THEN Throw(st, LogicError)
  ELSE
    LET old == st.sigNet[s]
        r1 == IF old # NoNet THEN NetUnregisterComponentSignal(st, old, s)
              ELSE Ok(st)
    IN IF r1.err # NoError THEN Throw(r1.st, r1.err)
       ELSE
         LET st1 == IF old # NoNet THEN Disconnect(r1.st, old, s) ELSE r1.st
             r2 == IF netsignal # NoNet
                   THEN NetRegisterComponentSignal(st1, netsignal, s)
                   ELSE Ok(st1)
         IN IF r2.err # NoError THEN Throw(r2.st, r2.err)
            ELSE
              LET st2 == IF netsignal # NoNet THEN Connect(r2.st, netsignal, s)
                         ELSE r2.st
                  st3 == [st2 EXCEPT !.sigNet[s] = netsignal]
              IN Ok(SigUpdateErcMessages(st3, s))

\* Faulty variant of setNetSignal: the unchanged check is missing.
SetNetSignalNoUnchangedCheck(st, s, netsignal) ==
  IF ~st.sigAdded[s] THEN Throw(st, LogicError)
  ELSE IF ArePinsOrPadsUsed(st, s) THEN Throw(st, LogicError)
  ELSE
    LET old == st.sigNet[s]
        r1 == IF old # NoNet THEN NetUnregisterComponentSignal(st, old, s)
              ELSE Ok(st)
    IN IF r1.err # NoError THEN Throw(RunScopeGuardList(r1.st, <<>>), r1.err)
       ELSE
         LET st1 == IF old # NoNet THEN Disconnect(r1.st, old, s) ELSE r1.st
             sgl1 == IF old # NoNet THEN <<GuardRestoreOldNet(s)>> ELSE <<>>
             r2 == IF netsignal # NoNet
                   THEN NetRegisterComponentSignal(st1, netsignal, s)
                   ELSE Ok(st1)
         IN IF r2.err # NoError
            THEN Throw(RunScopeGuardList(r2.st, sgl1), r2.err)
            ELSE
              LET st2 == IF netsignal # NoNet THEN Connect(r2.st, netsignal, s)
                         ELSE r2.st
                  st3 == [st2 EXCEPT !.sigNet[s] = netsignal]
              IN Ok(SigUpdateErcMessages(st3, s))

\* ComponentSignalInstance::setNetSignal
SetNetSignal(st, s, netsignal) ==
  IF netsignal = st.sigNet[s] THEN Ok(st)
  ELSE IF ~st.sigAdded[s] THEN Throw(st, LogicError)
  ELSE IF ArePinsOrPadsUsed(st, s) THEN Throw(st, LogicError)
  ELSE
    LET old == st.sigNet[s]
        r1 == IF old # NoNet THEN NetUnregisterComponentSignal(st, old, s)
              ELSE Ok(st)
    IN IF r1.err # NoError THEN Throw(RunScopeGuardList(r1.st, <<>>), r1.err)
       ELSE
         LET st1 == IF old # NoNet THEN Disconnect(r1.st, old, s) ELSE r1.st
             sgl1 == IF old # NoNet THEN <<GuardRestoreOldNet(s)>> ELSE <<>>
             r2 == IF netsignal # NoNet
                   THEN NetRegisterComponentSignal(st1, netsignal, s)
                   ELSE Ok(st1)
         IN IF r2.err # NoError
            THEN Throw(RunScopeGuardList(r2.st, sgl1), r2.err)
            ELSE
              LET st2 == IF netsignal # NoNet THEN Connect(r2.st, netsignal, s)
                         ELSE r2.st
                  st3 == [st2 EXCEPT !.sigNet[s] = netsignal]
              IN Ok(SigUpdateErcMessages(st3, s))

\* ------------------------------------------------------ ComponentInstance
SymbolItems(st) == st.lib.symbItems

\* The loop of getUnplacedRequiredSymbolsCount / ...OptionalSymbolsCount:
\* the items of the variant with isRequired() = required that are not a key
\* of mRegisteredSymbols.
RECURSIVE CountUnplaced(_, _, _)
CountUnplaced(items, required, registered) ==
  IF items = <<>> THEN 0
  ELSE (IF Head(items).required = required /\ Head(items).uuid \notin RegisteredItems(registered)
        THEN 1 ELSE 0)
       + CountUnplaced(Tail(items), required, registered)

GetUnplacedSymbolsCount(st) ==
  Len(SymbolItems(st)) - Cardinality(RegisteredItems(st.regSymbols))

GetUnplacedRequiredSymbolsCount(st) ==
  CountUnplaced(SymbolItems(st), TRUE, st.regSymbols)

GetUnplacedOptionalSymbolsCount(st) ==
  CountUnplaced(SymbolItems(st), FALSE, st.regSymbols)

CmpGetRegisteredElementsCount(st) ==
  Cardinality(RegisteredItems(st.regSymbols)) + Len(st.regDevices)

CmpIsUsed(st) ==
  \/ CmpGetRegisteredElementsCount(st) > 0
  \/ \E s \in Signals : SigIsUsed(st, s)

\* ComponentInstance::updateErcMessages
CmpUpdateErcMessages(st) ==
  LET required == GetUnplacedRequiredSymbolsCount(st)
      optional == GetUnplacedOptionalSymbolsCount(st)
  IN [st EXCEPT !.ercCmp =
       [required |-> [msg |-> <<st.name, required>>,
                      visible |-> st.added /\ required > 0],
        optional |-> [msg |-> <<st.name, optional>>,
                      visible |-> st.added /\ optional > 0]]]

\* emit attributesChanged(): every signal instance is connected to it with
\* its updateErcMessages slot.
RECURSIVE DeliverAttributesChanged(_, _)
DeliverAttributesChanged(st, receivers) ==
  IF receivers = {} THEN st
  ELSE LET s == CHOOSE x \in receivers : \A y \in receivers : x <= y
       IN DeliverAttributesChanged(SigUpdateErcMessages(st, s), receivers \ {s})

EmitAttributesChanged(st) ==
  DeliverAttributesChanged(Emit(st, "attributesChanged", 0), Signals)

\* Faulty variant of setName: attributesChanged is emitted before the name
\* is stored.
SetNameEmitFirst(st, name) ==
  IF name # st.name
  THEN IF name = "" THEN Throw(st, RuntimeError)
       ELSE Ok(CmpUpdateErcMessages(
                 [EmitAttributesChanged(st) EXCEPT !.name = name]))
  ELSE Ok(st)

SetName(st, name) ==
  IF name # st.name
  THEN IF name = "" THEN Throw(st, RuntimeError)
       ELSE Ok(EmitAttributesChanged(CmpUpdateErcMessages([st EXCEPT !.name = name])))
  ELSE Ok(st)

SetValue(st, value) ==
  IF value # st.value
  THEN Ok(EmitAttributesChanged([st EXCEPT !.value = value]))
  ELSE Ok(st)

SetAttributes(st, attributes) ==
  IF attributes # st.attrs
  THEN Ok(EmitAttributesChanged([st EXCEPT !.attrs = attributes]))
  ELSE Ok(st)

\* The foreach loop of addToCircuit from signal k on: [st, err, sgl].
RECURSIVE AddSignalsToCircuit(_, _, _)
AddSignalsToCircuit(st, k, sgl) ==
  IF k > NumSignals THEN [st |-> st, err |-> NoError, sgl |-> sgl]
  ELSE LET r == SigAddToCircuit(st, k)
       IN IF r.err # NoError THEN [st |-> r.st, err |-> r.err, sgl |-> sgl]
          ELSE AddSignalsToCircuit(r.st, k + 1,
                                   Append(sgl, GuardSigRemoveFromCircuit(k)))

\* The foreach loop of removeFromCircuit from signal k on: [st, err, sgl].
RECURSIVE RemoveSignalsFromCircuit(_, _, _)
RemoveSignalsFromCircuit(st, k, sgl) ==
  IF k > NumSignals THEN [st |-> st, err |-> NoError, sgl |-> sgl]
  ELSE LET r == SigRemoveFromCircuit(st, k)
       IN IF r.err # NoError THEN [st |-> r.st, err |-> r.err, sgl |-> sgl]
          ELSE RemoveSignalsFromCircuit(r.st, k + 1,
                                        Append(sgl, GuardSigAddToCircuit(k)))

\* Faulty variant of addToCircuit: the ScopeGuardList is missing.
CmpAddToCircuitNoRollback(st) ==
  IF st.added \/ CmpIsUsed(st) THEN Throw(st, LogicError)
  ELSE LET r == AddSignalsToCircuit(st, 1, <<>>)
       IN IF r.err # NoError THEN Throw(r.st, r.err)
          ELSE Ok(CmpUpdateErcMessages([r.st EXCEPT !.added = TRUE]))

CmpAddToCircuit(st) ==
  IF st.added \/ CmpIsUsed(st) THEN Throw(st, LogicError)
  ELSE LET r == AddSignalsToCircuit(st, 1, <<>>)
       IN IF r.err # NoError THEN Throw(RunScopeGuardList(r.st, r.sgl), r.err)
          ELSE Ok(CmpUpdateErcMessages([r.st EXCEPT !.added = TRUE]))

\* Faulty variant of removeFromCircuit: the isUsed() check is missing.
CmpRemoveFromCircuitNoUsedCheck(st) ==
  IF ~st.added THEN Throw(st, LogicError)
  ELSE LET r == RemoveSignalsFromCircuit(st, 1, <<>>)
       IN IF r.err # NoError THEN Throw(RunScopeGuardList(r.st, r.sgl), r.err)
          ELSE Ok(CmpUpdateErcMessages([r.st EXCEPT !.added = FALSE]))

\* Faulty variant of removeFromCircuit: isUsed() is checked first.
CmpRemoveFromCircuitUsedCheckFirst(st) ==
  IF CmpIsUsed(st) THEN Throw(st, RuntimeError)
  ELSE IF ~st.added THEN Throw(st, LogicError)
  ELSE LET r == RemoveSignalsFromCircuit(st, 1, <<>>)
       IN IF r.err # NoError THEN Throw(RunScopeGuardList(r.st, r.sgl), r.err)
          ELSE Ok(CmpUpdateErcMessages([r.st EXCEPT !.added = FALSE]))

CmpRemoveFromCircuit(st) ==
  IF ~st.added THEN Throw(st, LogicError)
  ELSE IF CmpIsUsed(st) THEN Throw(st, RuntimeError)
  ELSE LET r == RemoveSignalsFromCircuit(st, 1, <<>>)
       IN IF r.err # NoError THEN Throw(RunScopeGuardList(r.st, r.sgl), r.err)
          ELSE Ok(CmpUpdateErcMessages([r.st EXCEPT !.added = FALSE]))

ItemExists(st, itemUuid) ==
  \E i \in 1..Len(SymbolItems(st)) : SymbolItems(st)[i].uuid = itemUuid

\* Faulty variant of registerSymbol: the ERC messages are not updated.
RegisterSymbolNoErcUpdate(st, symbol, first) ==
  LET itemUuid == symbol.item
  IN IF ~st.added THEN Throw(st, LogicError)
     ELSE IF ~ItemExists(st, itemUuid) THEN Throw(st, RuntimeError)
     ELSE IF itemUuid \in RegisteredItems(st.regSymbols) THEN Throw(st, RuntimeError)
     ELSE IF RegisteredItems(st.regSymbols) # {} /\ symbol.schematic # first.schematic
       THEN Throw(st, RuntimeError)
     ELSE Ok([st EXCEPT !.regSymbols[itemUuid] = symbol])

\* Faulty variant of registerSymbol: any item uuid is accepted.
RegisterSymbolAnyItem(st, symbol, first) ==
  LET itemUuid == symbol.item
  IN IF ~st.added THEN Throw(st, LogicError)
     ELSE IF itemUuid \in RegisteredItems(st.regSymbols) THEN Throw(st, RuntimeError)
     ELSE IF RegisteredItems(st.regSymbols) # {} /\ symbol.schematic # first.schematic
       THEN Throw(st, RuntimeError)
     ELSE Ok(CmpUpdateErcMessages([st EXCEPT !.regSymbols[itemUuid] = symbol]))

\* Faulty variant of registerSymbol: the schematic of the symbol is not
\* compared with the one of the registered symbols.
RegisterSymbolAnySchematic(st, symbol, first) ==
  LET itemUuid == symbol.item
  IN IF ~st.added THEN Throw(st, LogicError)
     ELSE IF ~ItemExists(st, itemUuid) THEN Throw(st, RuntimeError)
     ELSE IF itemUuid \in RegisteredItems(st.regSymbols) THEN Throw(st, RuntimeError)
     ELSE Ok(CmpUpdateErcMessages(
            [st EXCEPT !.regSymbols[itemUuid] = symbol]))

\* registerSymbol; `first` is mRegisteredSymbols.values().first(), any of
\* the registered symbols (unused while none is registered).
RegisterSymbol(st, symbol, first) ==
  LET itemUuid == symbol.item
  IN IF ~st.added THEN Throw(st, LogicError)
     ELSE IF ~ItemExists(st, itemUuid) THEN Throw(st, RuntimeError)
     ELSE IF itemUuid \in RegisteredItems(st.regSymbols) THEN Throw(st, RuntimeError)
     ELSE IF RegisteredItems(st.regSymbols) # {} /\ symbol.schematic # first.schematic
       THEN Throw(st, RuntimeError)
     ELSE Ok(CmpUpdateErcMessages(
            [st EXCEPT !.regSymbols[itemUuid] = symbol]))

\* Faulty variant of unregisterSymbol: the symbol is not compared with the
\* one registered for its item.
UnregisterSymbolAnySymbol(st, symbol) ==
  LET itemUuid == symbol.item
  IN IF \/ ~st.added
        \/ itemUuid \notin RegisteredItems(st.regSymbols)
     THEN Throw(st, LogicError)
     ELSE Ok(CmpUpdateErcMessages(
            [st EXCEPT !.regSymbols[itemUuid] = NoSymbol]))

\* unregisterSymbol
UnregisterSymbol(st, symbol) ==
  LET itemUuid == symbol.item
  IN IF \/ ~st.added
        \/ itemUuid \notin RegisteredItems(st.regSymbols)
        \/ symbol # st.regSymbols[itemUuid]
     THEN Throw(st, LogicError)
     ELSE Ok(CmpUpdateErcMessages(
            [st EXCEPT !.regSymbols[itemUuid] = NoSymbol]))

\* Faulty variant of registerDevice: only the added flag is checked.
RegisterDeviceOnlyAddedChecked(st, device) ==
  IF ~st.added THEN Throw(st, LogicError)
  ELSE Ok(CmpUpdateErcMessages([st EXCEPT !.regDevices = Append(@, device)]))

RegisterDevice(st, device) ==
  IF ~st.added \/ Contains(st.regDevices, device) \/ st.lib.schematicOnly
  THEN Throw(st, LogicError)
  ELSE Ok(CmpUpdateErcMessages([st EXCEPT !.regDevices = Append(@, device)]))

UnregisterDevice(st, device) ==
  IF ~st.added \/ ~Contains(st.regDevices, device) THEN Throw(st, LogicError)
  ELSE Ok(CmpUpdateErcMessages([st EXCEPT !.regDevices = Remove(@, device)]))

\* -------------------------------------------------- SerializableObjectList
\* An ordered list of elements with unique keys; an element is its key and
\* positions count from 0.
Elements == 1..NumElements
\* The command objects that are called directly.
Cmds == {1}
Indexes == (-1)..NumElements
Lists == UNION {{l \in [1..n -> Elements] : \A i, j \in 1..n : l[i] = l[j] => i = j}
                : n \in 0..NumElements}

\* insert(index, element): [list, index, err]; the index of the element in
\* the list is returned.
ListInsert(list, index, element) ==
  IF Contains(list, element) \/ index < 0 \/ index > Len(list)
  THEN [list |-> list, index |-> index, err |-> RuntimeError]
  ELSE [list |-> SubSeq(list, 1, index) \o <<element>>
                   \o SubSeq(list, index + 1, Len(list)),
        index |-> index, err |-> NoError]

\* remove(index): [list, err].
ListRemove(list, index) ==
  IF index < 0 \/ index >= Len(list)
  THEN [list |-> list, err |-> RuntimeError]
  ELSE [list |-> SubSeq(list, 1, index) \o SubSeq(list, index + 2, Len(list)),
        err |-> NoError]

\* ---------------------------------------------------- CmdListElementInsert
\* Faulty variant of the constructor: the new command counts as executed.
CmdListElementInsertExecuted(element, index) ==
  [state |-> "Executed", mElement |-> element,
   mIndex |-> IF index < 0 THEN 0 ELSE index]

\* The constructor: the element, the index (-1: append) and the state of
\* the UndoCommand.
CmdListElementInsert(element, index) ==
  [state |-> "Initial", mElement |-> element, mIndex |-> index]

\* No command object.
NoCmd == [state |-> "None", mElement |-> 0, mIndex |-> -1]

\* Faulty variant of performRedo: a refused element is in the list when
\* the exception leaves.
PerformRedoPartial(list, cmd) ==
  LET r == ListInsert(list, cmd.mIndex, cmd.mElement)
  IN IF r.err # NoError
     THEN [list |-> Append(list, cmd.mElement), cmd |-> cmd, err |-> r.err]
     ELSE [list |-> r.list, cmd |-> [cmd EXCEPT !.mIndex = r.index],
           err |-> NoError]

\* performRedo: [list, cmd, err].
PerformRedo(list, cmd) ==
  LET r == ListInsert(list, cmd.mIndex, cmd.mElement)
  IN IF r.err # NoError THEN [list |-> list, cmd |-> cmd, err |-> r.err]
     ELSE [list |-> r.list, cmd |-> [cmd EXCEPT !.mIndex = r.index],
           err |-> NoError]

\* Faulty variant of performExecute: the index is not resolved.
PerformExecuteNoResolve(list, cmd) ==
  PerformRedo(list, [cmd EXCEPT !.mIndex = IF @ < 0 THEN 0 ELSE @])

\* performExecute: mIndex is assigned before the insert that can throw.
PerformExecute(list, cmd) ==
  PerformRedo(list, IF cmd.mIndex < 0 THEN [cmd EXCEPT !.mIndex = Len(list)]
                    ELSE cmd)

\* Faulty variant of performUndo: the last element is removed.
PerformUndoLast(list, cmd) ==
  LET r == ListRemove(list, Len(list) - 1)
  IN [list |-> r.list, cmd |-> cmd, err |-> r.err]

\* performUndo: [list, cmd, err].
PerformUndo(list, cmd) ==
  LET r == ListRemove(list, cmd.mIndex)
  IN [list |-> r.list, cmd |-> cmd, err |-> r.err]

\* ------------------------------------------------------------ UndoCommand
\* execute: legal on an Initial command only; a failure of performExecute
\* propagates and the command is not executed.
Execute(list, cmd) ==
  IF cmd.state # "Initial"
  THEN [list |-> list, cmd |-> cmd, err |-> LogicError]
  ELSE LET r == PerformExecute(list, cmd)
       IN IF r.err # NoError THEN r
          ELSE [r EXCEPT !.cmd.state = "Executed"]

\* undo: legal on an Executed command only; a failure of performUndo is
\* fatal.
Undo(list, cmd) ==
  IF cmd.state # "Executed"
  THEN [list |-> list, cmd |-> cmd, err |-> LogicError]
  ELSE LET r == PerformUndo(list, cmd)
       IN IF r.err # NoError THEN [r EXCEPT !.err = LogicError]
          ELSE [r EXCEPT !.cmd.state = "Undone"]

\* redo: legal on an Undone command only; a failure of performRedo is fatal.
Redo(list, cmd) ==
  IF cmd.state # "Undone"
  THEN [list |-> list, cmd |-> cmd, err |-> LogicError]
  ELSE LET r == PerformRedo(list, cmd)
       IN IF r.err # NoError THEN [r EXCEPT !.err = LogicError]
          ELSE [r EXCEPT !.cmd.state = "Executed"]

\* ------------------------------------------------------ composite commands
\* A composite command that was executed, with its executed children in
\* order; a child is a CmdListElementInsert or a composite command.
ExecutedComposite(children) == [state |-> "Executed", children |-> children]

IsComposite(cmd) == "children" \in DOMAIN cmd

\* Undo the command cmd, a composite one by undoing its children:
\* [list, err].
RECURSIVE UndoCommand(_, _)
\* Undo the commands of `children`, the last one first: [list, err].
RECURSIVE UndoChildren(_, _)
UndoCommand(list, cmd) ==
  IF IsComposite(cmd) THEN UndoChildren(list, cmd.children)
  ELSE LET r == Undo(list, cmd) IN [list |-> r.list, err |-> r.err]

UndoChildren(list, children) ==
  IF children = <<>> THEN [list |-> list, err |-> NoError]
  ELSE LET n == Len(children)
           r == UndoCommand(list, children[n])
       IN IF r.err # NoError THEN r
          ELSE UndoChildren(r.list, SubSeq(children, 1, n - 1))

\* A child failed in the innermost composite of `frames`: every composite
\* in execution undoes its executed children, the innermost first.
RECURSIVE RollbackFrames(_, _)
RollbackFrames(list, frames) ==
  IF frames = <<>> THEN [list |-> list, err |-> NoError]
  ELSE LET n == Len(frames)
           r == UndoChildren(list, frames[n])
       IN IF r.err # NoError THEN r
          ELSE RollbackFrames(r.list, SubSeq(frames, 1, n - 1))

\* The number of composite commands in `children`, at any depth.
RECURSIVE CountComposites(_)
CountComposites(children) ==
  IF children = <<>> THEN 0
  ELSE LET c == children[1]
       IN (IF IsComposite(c) THEN 1 + CountComposites(c.children) ELSE 0)
            + CountComposites(SubSeq(children, 2, Len(children)))

\* The number of executed composite commands in the composites in execution.
RECURSIVE CountCompositesIn(_)
CountCompositesIn(frames) ==
  IF frames = <<>> THEN 0
  ELSE CountComposites(frames[1])
         + CountCompositesIn(SubSeq(frames, 2, Len(frames)))

\* ----------------------------------------------------------- CommandStack
\* The state of the stack with the list its commands work on:
\* [list, commands, cursor, err].
StackState(list, commands, cursor, err) ==
  [list |-> list, commands |-> commands, cursor |-> cursor, err |-> err]

StackExecCmdKeepTail(list, commands, cursor, cmd) ==
  LET r == Execute(list, cmd)
  IN IF r.err # NoError THEN StackState(list, commands, cursor, r.err)
     ELSE StackState(r.list, Append(commands, r.cmd), cursor + 1, NoError)

\* Execute cmd and push it: a command that fails is not pushed; the
\* commands right of the cursor are discarded by the push.
StackExecCmd(list, commands, cursor, cmd) ==
  LET r == Execute(list, cmd)
  IN IF r.err # NoError THEN StackState(list, commands, cursor, r.err)
     ELSE StackState(r.list, Append(SubSeq(commands, 1, cursor), r.cmd),
                     cursor + 1, NoError)

\* Undo the command left of the cursor; nothing to undo: no-op.
StackUndo(list, commands, cursor) ==
  IF cursor = 0 THEN StackState(list, commands, cursor, NoError)
  ELSE LET r == Undo(list, commands[cursor])
       IN IF r.err # NoError THEN StackState(list, commands, cursor, r.err)
          ELSE StackState(r.list, [commands EXCEPT ![cursor] = r.cmd],
                          cursor - 1, NoError)

\* Redo the command right of the cursor; nothing to redo: no-op.
StackRedo(list, commands, cursor) ==
  IF cursor = Len(commands) THEN StackState(list, commands, cursor, NoError)
  ELSE LET r == Redo(list, commands[cursor + 1])
       IN IF r.err # NoError THEN StackState(list, commands, cursor, r.err)
          ELSE StackState(r.list, [commands EXCEPT ![cursor + 1] = r.cmd],
                          cursor + 1, NoError)

\* ------------------------------------------------------------------ Init
NoMsg == [msg |-> <<>>, visible |-> FALSE]

\* init() of every signal instance, in the constructor's order.
RECURSIVE InitSignals(_, _)
InitSignals(st, k) ==
  IF k > NumSignals THEN st
  ELSE InitSignals(SigUpdateErcMessages(st, k), k + 1)

\* The state after the construction of the nets and of a ComponentInstance
\* of library component lib whose signals are bound as in nets (all NoNet
\* for a new instance, as stored for a loaded one).
Constructed(lib, nets) ==
  LET raw ==
        [uuid |-> 1, lib |-> lib, symbVar |-> lib.symbVar,
         added |-> FALSE, name |-> "U1", value |-> "",
         attrs |-> [k \in AttrKeys |-> NoAttr],
         regSymbols |-> [u \in Items |-> NoSymbol], regDevices |-> <<>>,
         ercCmp |-> [required |-> NoMsg, optional |-> NoMsg],
         sigAdded |-> [s \in Signals |-> FALSE], sigNet |-> nets,
         sigPins |-> [s \in Signals |-> <<>>],
         sigPads |-> [s \in Signals |-> <<>>],
         ercSig |-> [s \in Signals |-> [unconnected |-> NoMsg, conflict |-> NoMsg]],
         netName |-> [n \in Nets |-> IF n % 2 = 1 THEN "VCC" ELSE "PWR"],
         netAdded |-> [n \in Nets |-> TRUE],
         netReg |-> [n \in Nets |-> {}],
         conn |-> [s \in Signals |-> [n \in Nets |-> IF nets[s] = n THEN 1 ELSE 0]],
         pinNetPoint |-> [p \in Pins |-> FALSE],
         padIsUsed |-> [q \in Pads |-> FALSE], events |-> <<>>]
  IN CmpUpdateErcMessages(InitSignals(raw, 1))

\* --------------------------------------------------------- serialization
\* ComponentInstance::checkAttributesValidity (uuid, library component
\* and symbol variant are set by every constructor).
CmpCheckAttributesValidity(st) == st.name # ""

\* Faulty variant of serialize: the net signal is not written.
SigSerializeNoNet(st, s) == [comp_signal |-> s, netsignal |-> NoNet]

\* ComponentSignalInstance::serialize: the signal by its uuid and the net
\* signal by its uuid, the null uuid without one.
SigSerialize(st, s) == [comp_signal |-> s, netsignal |-> st.sigNet[s]]

NoNode == [uuid |-> 0]

\* ComponentInstance::serialize: [node, err].
Serialize(st) ==
  IF ~CmpCheckAttributesValidity(st)
  THEN [node |-> NoNode, err |-> LogicError]
  ELSE [node |-> [uuid |-> st.uuid, component |-> st.lib.id,
                  symbol_variant |-> st.symbVar, name |-> st.name,
                  value |-> st.value, attributes |-> st.attrs,
                  signal_map |-> [s \in 1..NumSignals |-> SigSerialize(st, s)]],
        err |-> NoError]

\* Library::getComponent: the library component with the uuid, if any.
NoComponent == [id |-> ""]
GetComponent(id) ==
  IF \E lib \in LibComponents : lib.id = id
  THEN CHOOSE lib \in LibComponents : lib.id = id
  ELSE NoComponent

\* Circuit::getNetSignalByUuid: the net signal of the circuit with the
\* uuid, if any.
GetNetSignalByUuid(st, uuid) ==
  IF uuid \in Nets /\ st.netAdded[uuid] THEN uuid ELSE NoNet

\* ComponentSignalInstance(circuit, cmpInstance, domElement):
\* [sig, net, err].
SigDeserialize(st, lib, node) ==
  IF node.comp_signal \notin 1..Len(lib.signals)
  THEN [sig |-> 0, net |-> NoNet, err |-> RuntimeError]
  ELSE IF node.netsignal # NoNet
            /\ GetNetSignalByUuid(st, node.netsignal) = NoNet
  THEN [sig |-> 0, net |-> NoNet, err |-> RuntimeError]
  ELSE [sig |-> node.comp_signal, net |-> node.netsignal, err |-> NoError]

\* The foreach loop over the "signal_map" childs from child k on, with the
\* signal instances mSignals loaded so far: [mSignals, err].
RECURSIVE LoadSignalsAllowTwice(_, _, _, _, _)
LoadSignalsAllowTwice(st, lib, childs, k, signals) ==
  IF k > Len(childs) THEN [mSignals |-> signals, err |-> NoError]
  ELSE LET r == SigDeserialize(st, lib, childs[k])
       IN IF r.err # NoError THEN [mSignals |-> signals, err |-> r.err]
          ELSE LoadSignalsAllowTwice(st, lib, childs, k + 1,
                                     signals @@ (r.sig :> r.net))

RECURSIVE LoadSignals(_, _, _, _, _)
LoadSignals(st, lib, childs, k, signals) ==
  IF k > Len(childs) THEN [mSignals |-> signals, err |-> NoError]
  ELSE LET r == SigDeserialize(st, lib, childs[k])
       IN IF r.err # NoError THEN [mSignals |-> signals, err |-> r.err]
          ELSE IF r.sig \in DOMAIN signals
          THEN [mSignals |-> signals, err |-> RuntimeError]
          ELSE LoadSignals(st, lib, childs, k + 1,
                           signals @@ (r.sig :> r.net))

\* The instance that a constructor has filled in, after init() of every
\* signal instance and of the component instance, in the circuit of st.
NewInstance(st, uuid, lib, symbVar, name, value, attrs, nets) ==
  LET raw ==
        [st EXCEPT
           !.uuid = uuid, !.lib = lib, !.symbVar = symbVar, !.added = FALSE,
           !.name = name, !.value = value, !.attrs = attrs,
           !.regSymbols = [u \in Items |-> NoSymbol], !.regDevices = <<>>,
           !.ercCmp = [required |-> NoMsg, optional |-> NoMsg],
           !.sigAdded = [s \in Signals |-> FALSE], !.sigNet = nets,
           !.sigPins = [s \in Signals |-> <<>>],
           !.sigPads = [s \in Signals |-> <<>>],
           !.ercSig = [s \in Signals |->
                         [unconnected |-> NoMsg, conflict |-> NoMsg]],
           !.conn = [s \in Signals |->
                       [n \in Nets |-> IF nets[s] = n THEN 1 ELSE 0]]]
  IN CmpUpdateErcMessages(InitSignals(raw, 1))

\* ComponentInstance(circuit, domElement), replacing the instance of st.
Deserialize(st, node) ==
  LET lib == GetComponent(node.component)
  IN IF node.name = "" THEN Throw(st, RuntimeError)
     ELSE IF lib = NoComponent THEN Throw(st, RuntimeError)
     ELSE IF node.symbol_variant # lib.symbVar THEN Throw(st, RuntimeError)
     ELSE LET r == LoadSignals(st, lib, node.signal_map, 1, <<>>)
          IN IF r.err # NoError THEN Throw(st, r.err)
             ELSE IF Cardinality(DOMAIN r.mSignals) # Len(lib.signals)
             THEN Throw(st, RuntimeError)
             ELSE Ok(NewInstance(st, node.uuid, lib, node.symbol_variant,
                                 node.name, node.value, node.attributes,
                                 r.mSignals))

\* The circuit after construction, with a library component of libs.
InitCircuit(libs, bindings) ==
  \E lib \in libs, nets \in bindings :
    LET c == Constructed(lib, nets)
    IN /\ mUuid = c.uuid
       /\ mLibComponent = c.lib
       /\ mCompSymbVar = c.symbVar
       /\ mIsAddedToCircuit = c.added
       /\ mName = c.name
       /\ mValue = c.value
       /\ mAttributes = c.attrs
       /\ mRegisteredSymbols = c.regSymbols
       /\ mRegisteredDevices = c.regDevices
       /\ mErcMsgCmp = c.ercCmp
       /\ sigIsAddedToCircuit = c.sigAdded
       /\ sigNetSignal = c.sigNet
       /\ sigRegisteredSymbolPins = c.sigPins
       /\ sigRegisteredFootprintPads = c.sigPads
       /\ mErcMsgSig = c.ercSig
       /\ netName = c.netName
       /\ netIsAddedToCircuit = c.netAdded
       /\ netRegisteredComponentSignals = c.netReg
       /\ connections = c.conn
       /\ pinNetPoint = c.pinNetPoint
       /\ padIsUsed = c.padIsUsed
       /\ events = c.events
       /\ lastCall = Call("construct", 0, 0)

\* The list `list`, no command and an empty command stack.
\* ------------------------------------------------------- ControlPanel
\* The project files the user can name: the second path is another name
\* (through a symbolic link) of the file of the first.
ProjectPaths == {"/p/a.lpp", "/link/a.lpp", "/p/b.lpp"}
\* FilePath::toUnique: the canonical path of the file.
ToUnique(filepath) == IF filepath = "/link/a.lpp" THEN "/p/a.lpp" ELSE filepath
Libraries == {"libA", "libB"}
\* Editor objects by identity; NoEditor is nullptr.
Editors == 1..MaxEditors
NoEditor == 0
\* An editor object that does not exist yet.
NoObject == [state |-> "none", filepath |-> ""]

\* The control panel after construction: no editor is open.
InitPanel ==
  /\ mOpenProjectEditors = [key \in ProjectPaths |-> NoEditor]
  /\ projectEditors = [e \in Editors |-> NoObject]
  /\ mOpenLibraryEditors = [lib \in Libraries |-> NoEditor]
  /\ libraryEditors = [e \in Editors |-> "none"]
  /\ running = TRUE

InitCommands(list) ==
  /\ InitPanel
  /\ mList = list
  /\ cmds = [c \in Cmds |-> NoCmd]
  /\ stackCommands = <<>>
  /\ stackCursor = 0
  /\ groupFrames = <<>>
  /\ groupBefore = <<>>

InitWith(bindings) ==
  InitCircuit(LibComponents, bindings) /\ InitCommands(<<>>)

\* A new instance (no signal bound) or a loaded one (any binding).
Init == InitWith([Signals -> Nets \cup {NoNet}])

\* A new instance, or one loaded with every signal bound to the first net.
InitCmp == InitWith({[s \in Signals |-> NoNet], [s \in Signals |-> 1]})

\* --------------------------------------------------------------- actions
\* Each action is one call of a public method with any arguments; a call
\* that throws leaves its exception in lastCall.err.
AddToCircuit ==
  Commit(CmpAddToCircuit(Cur), Call("addToCircuit", 0, 0))

RemoveFromCircuit ==
  Commit(CmpRemoveFromCircuit(Cur), Call("removeFromCircuit", 0, 0))

SetNetSignalCall ==
  \E s \in Signals, n \in Nets \cup {NoNet} :
    Commit(SetNetSignal(Cur, s, n), Call("setNetSignal", s, n))

NetSetNameCall ==
  \E n \in Nets, name \in NetNames :
    Commit(NetSetName(Cur, n, name), Call("netSetName", n, name))

NetAddToCircuitCall ==
  \E n \in Nets : Commit(NetAddToCircuit(Cur, n), Call("netAddToCircuit", n, 0))

NetRemoveFromCircuitCall ==
  \E n \in Nets :
    Commit(NetRemoveFromCircuit(Cur, n), Call("netRemoveFromCircuit", n, 0))

RegisterSymbolPinCall ==
  \E p \in Pins :
    Commit(SigRegisterSymbolPin(Cur, PinSignal(p), p),
           Call("registerSymbolPin", PinSignal(p), p))

\* A symbol pin leaves its schematic only without a net point.
UnregisterSymbolPinCall ==
  \E p \in Pins :
    /\ ~pinNetPoint[p]
    /\ Commit(SigUnregisterSymbolPin(Cur, PinSignal(p), p),
              Call("unregisterSymbolPin", PinSignal(p), p))

RegisterFootprintPadCall ==
  \E q \in Pads :
    Commit(SigRegisterFootprintPad(Cur, PadSignal(q), q),
           Call("registerFootprintPad", PadSignal(q), q))

UnregisterFootprintPadCall ==
  \E q \in Pads :
    /\ ~padIsUsed[q]
    /\ Commit(SigUnregisterFootprintPad(Cur, PadSignal(q), q),
              Call("unregisterFootprintPad", PadSignal(q), q))

\* A net point is attached to or detached from a registered symbol pin.
PinSetNetPoint ==
  \E p \in Pins :
    /\ Contains(sigRegisteredSymbolPins[PinSignal(p)], p)
    /\ Commit(Ok([Cur EXCEPT !.pinNetPoint[p] = ~@]), Call("pinSetNetPoint", p, 0))

\* A registered footprint pad gets connected or disconnected.
PadSetUsed ==
  \E q \in Pads :
    /\ Contains(sigRegisteredFootprintPads[PadSignal(q)], q)
    /\ Commit(Ok([Cur EXCEPT !.padIsUsed[q] = ~@]), Call("padSetUsed", q, 0))

SetNameCall ==
  \E name \in CmpNames \cup {""} :
    Commit(SetName(Cur, name), Call("setName", 0, name))

SetValueCall ==
  \E value \in CmpValues :
    Commit(SetValue(Cur, value), Call("setValue", 0, value))

SetAttributesCall ==
  \E attributes \in AttributeLists :
    Commit(SetAttributes(Cur, attributes), Call("setAttributes", 0, attributes))

RegisterSymbolCall ==
  \E symbol \in Symbols :
    \E first \in (IF RegisteredItems(mRegisteredSymbols) = {} THEN {NoSymbol}
                  ELSE RegisteredSymbolValues(mRegisteredSymbols)) :
      Commit(RegisterSymbol(Cur, symbol, first), Call("registerSymbol", 0, symbol))

UnregisterSymbolCall ==
  \E symbol \in Symbols :
    Commit(UnregisterSymbol(Cur, symbol), Call("unregisterSymbol", 0, symbol))

RegisterDeviceCall ==
  \E device \in Devices :
    Commit(RegisterDevice(Cur, device), Call("registerDevice", 0, device))

UnregisterDeviceCall ==
  \E device \in Devices :
    Commit(UnregisterDevice(Cur, device), Call("unregisterDevice", 0, device))

\* Commit a call on the list, the commands or the command stack.
CommitCmd(list, commands, stack, cursor, call, err) ==
  /\ mList' = list
  /\ cmds' = commands
  /\ stackCommands' = stack
  /\ stackCursor' = cursor
  /\ events' = <<>>
  /\ lastCall' = [call EXCEPT !.err = err]
  /\ UNCHANGED <<cmpVars, sigVars, netVars, envVars, groupVars, panelVars>>

\* A CmdListElementInsert is constructed for any element and index.
NewCmdCall ==
  \E c \in Cmds, element \in Elements, index \in Indexes :
    /\ cmds[c] = NoCmd
    /\ CommitCmd(mList, [cmds EXCEPT ![c] = CmdListElementInsert(element, index)],
                 stackCommands, stackCursor,
                 Call("newCmd", c, <<element, index>>), NoError)

\* A command is destroyed.
DeleteCmdCall ==
  \E c \in Cmds :
    /\ cmds[c] # NoCmd
    /\ CommitCmd(mList, [cmds EXCEPT ![c] = NoCmd], stackCommands, stackCursor,
                 Call("deleteCmd", c, 0), NoError)

CmdExecuteCall ==
  \E c \in Cmds :
    /\ cmds[c] # NoCmd
    /\ LET r == Execute(mList, cmds[c])
       IN CommitCmd(r.list, [cmds EXCEPT ![c] = r.cmd], stackCommands,
                    stackCursor, Call("cmdExecute", c, 0), r.err)

CmdUndoCall ==
  \E c \in Cmds :
    /\ cmds[c] # NoCmd
    /\ LET r == Undo(mList, cmds[c])
       IN CommitCmd(r.list, [cmds EXCEPT ![c] = r.cmd], stackCommands,
                    stackCursor, Call("cmdUndo", c, 0), r.err)

CmdRedoCall ==
  \E c \in Cmds :
    /\ cmds[c] # NoCmd
    /\ LET r == Redo(mList, cmds[c])
       IN CommitCmd(r.list, [cmds EXCEPT ![c] = r.cmd], stackCommands,
                    stackCursor, Call("cmdRedo", c, 0), r.err)

\* A new CmdListElementInsert is handed to the command stack; the call is
\* recorded with the number of commands that were right of the cursor.
StackExecCmdCall ==
  \E element \in Elements, index \in Indexes :
    LET r == StackExecCmd(mList, stackCommands, stackCursor,
                          CmdListElementInsert(element, index))
    IN CommitCmd(r.list, cmds, r.commands, r.cursor,
                 Call("stackExecCmd", Len(stackCommands) - stackCursor,
                      <<element, index>>), r.err)

\* execute() is called on a command that is on the command stack.
StackCmdExecuteCall ==
  \E i \in 1..Len(stackCommands) :
    LET r == Execute(mList, stackCommands[i])
    IN CommitCmd(r.list, cmds, [stackCommands EXCEPT ![i] = r.cmd], stackCursor,
                 Call("cmdExecute", i, 0), r.err)

StackUndoCall ==
  LET r == StackUndo(mList, stackCommands, stackCursor)
  IN CommitCmd(r.list, cmds, r.commands, r.cursor, Call("stackUndo", 0, 0), r.err)

StackRedoCall ==
  LET r == StackRedo(mList, stackCommands, stackCursor)
  IN CommitCmd(r.list, cmds, r.commands, r.cursor, Call("stackRedo", 0, 0), r.err)

\* The uuids a file can hold for the instance and for its symbol variant.
CmpUuids == {1, 2}
SymbVarUuids == {1, 2}

\* The sequence seq without its element i.
DropAt(seq, i) == SubSeq(seq, 1, i - 1) \o SubSeq(seq, i + 1, Len(seq))

\* The nodes a file holds that was written from node and then edited in
\* one place: a child removed, repeated, moved, or an identifier changed.
EditedNodes(node) ==
  LET childs == node.signal_map
      places == 1..Len(childs)
  IN {node}
     \cup {[node EXCEPT !.signal_map = DropAt(childs, i)] : i \in places}
     \cup {[node EXCEPT !.signal_map = <<>>]}
     \cup {[node EXCEPT !.signal_map = Append(childs, childs[i])] :
             i \in places}
     \cup {[node EXCEPT !.signal_map = Append(DropAt(childs, i), childs[i])] :
             i \in places}
     \cup {[node EXCEPT !.signal_map[i].comp_signal = j] :
             i \in places, j \in 1..(NumSignals + 1)}
     \cup {[node EXCEPT !.signal_map[i].netsignal = n] :
             i \in places, n \in 0..(NumNets + 1)}
     \cup {[node EXCEPT !.component = id] : id \in {"A", "B", "X"}}
     \cup {[node EXCEPT !.symbol_variant = v] : v \in SymbVarUuids}
     \cup {[node EXCEPT !.uuid = uuid] : uuid \in CmpUuids}
     \cup {[node EXCEPT !.name = ""]}

\* serialize() is called; the call is recorded with the node it wrote.
SerializeCall ==
  LET r == Serialize(Cur)
  IN Commit([st |-> Cur, err |-> r.err], Call("serialize", 0, r.node))

\* The instance, which is not part of the circuit, is destroyed and an
\* instance is constructed from a node that serialize() wrote and that may
\* have been edited.
LoadCall ==
  /\ ~mIsAddedToCircuit
  /\ ~CmpIsUsed(Cur)
  /\ LET r == Serialize(Cur)
     IN /\ r.err = NoError
        /\ \E node \in EditedNodes(r.node) :
             Commit(Deserialize(Cur, node), Call("load", 0, node))

\* The indexes the children of a composite command insert at: the end of
\* the list, its front, and one beyond the end unless the list is full.
GroupIndexes == {-1, 0, NumElements}

\* Commit a step of the execution of a composite command.
CommitGroup(list, frames, before, call, err) ==
  /\ mList' = list
  /\ groupFrames' = frames
  /\ groupBefore' = before
  /\ events' = <<>>
  /\ lastCall' = [call EXCEPT !.err = err]
  /\ UNCHANGED <<cmpVars, sigVars, netVars, envVars, cmds, stackCommands,
                 stackCursor, panelVars>>

\* A composite command starts to execute, as the outermost one or as the
\* next child of the composite in execution.
GroupBeginCall ==
  /\ Len(groupFrames) + CountCompositesIn(groupFrames) < MaxComposites
  /\ CommitGroup(mList, Append(groupFrames, <<>>),
                 IF groupFrames = <<>> THEN mList ELSE groupBefore,
                 Call("groupBegin", Len(groupFrames) + 1, 0), NoError)

\* The innermost composite in execution executes its next child, a
\* CmdListElementInsert: when it fails all composites in execution undo
\* their executed children and the failure propagates.
GroupExecChildCall ==
  \E element \in Elements, index \in GroupIndexes :
    /\ groupFrames # <<>>
    /\ LET n == Len(groupFrames)
           call == Call("groupExecChild", n, Len(groupFrames[n]) + 1)
           r == Execute(mList, CmdListElementInsert(element, index))
           rb == RollbackFrames(mList, groupFrames)
       IN IF r.err = NoError
          THEN CommitGroup(r.list,
                           [groupFrames EXCEPT ![n] = Append(@, r.cmd)],
                           groupBefore, call, NoError)
          ELSE CommitGroup(rb.list, <<>>, <<>>, call,
                           IF rb.err # NoError THEN LogicError ELSE r.err)

\* The innermost composite in execution has executed all its children.
GroupEndCall ==
  /\ groupFrames # <<>>
  /\ LET n == Len(groupFrames)
         done == ExecutedComposite(groupFrames[n])
     IN IF n = 1
        THEN CommitGroup(mList, <<>>, <<>>, Call("groupEnd", n, 0), NoError)
        ELSE CommitGroup(mList,
                         [SubSeq(groupFrames, 1, n - 1)
                            EXCEPT ![n - 1] = Append(@, done)],
                         groupBefore, Call("groupEnd", n, 0), NoError)

\* -------------------------------------------------------- specifications
\* The component, its signal instances and the nets they bind to.
Next ==
  \/ AddToCircuit
  \/ RemoveFromCircuit
  \/ SetNetSignalCall
  \/ NetSetNameCall
  \/ NetAddToCircuitCall
  \/ NetRemoveFromCircuitCall
  \/ SetAttributesCall

Spec == Init /\ [][Next]_vars

\* The signal instances with the pins and pads that register with them.
NextPins ==
  \/ AddToCircuit
  \/ RemoveFromCircuit
  \/ SetNetSignalCall
  \/ RegisterSymbolPinCall
  \/ UnregisterSymbolPinCall
  \/ RegisterFootprintPadCall
  \/ UnregisterFootprintPadCall
  \/ PinSetNetPoint
  \/ PadSetUsed

SpecPins == Init /\ [][NextPins]_vars

\* The component with the symbols and devices that register with it.
NextCmp ==
  \/ AddToCircuit
  \/ RemoveFromCircuit
  \/ RegisterSymbolCall
  \/ UnregisterSymbolCall
  \/ RegisterDeviceCall
  \/ UnregisterDeviceCall
  \/ SetNameCall
  \/ RegisterSymbolPinCall
  \/ UnregisterSymbolPinCall

SpecCmp == InitCmp /\ [][NextCmp]_vars

\* The registration calls of the component and of its signal instances.
NextReg ==
  \/ AddToCircuit
  \/ RemoveFromCircuit
  \/ RegisterSymbolCall
  \/ UnregisterSymbolCall
  \/ RegisterDeviceCall
  \/ UnregisterDeviceCall
  \/ RegisterSymbolPinCall
  \/ UnregisterSymbolPinCall
  \/ RegisterFootprintPadCall
  \/ UnregisterFootprintPadCall

SpecReg == InitCmp /\ [][NextReg]_vars

\* The calls that change what an ERC message of the component or of a
\* signal instance is made from.
NextErc ==
  \/ AddToCircuit
  \/ SetNetSignalCall
  \/ NetSetNameCall
  \/ SetNameCall
  \/ SetAttributesCall
  \/ RegisterSymbolCall
  \/ UnregisterSymbolCall

\* An instance of the component whose forced net name is an attribute.
InitErc ==
  /\ InitCircuit({LibComponentB},
                 {[s \in Signals |-> NoNet], [s \in Signals |-> 1]})
  /\ InitCommands(<<>>)

SpecErc == InitErc /\ [][NextErc]_vars

\* An instance outside the circuit that is changed, written and loaded
\* again, while nets leave the circuit.
NextLoad ==
  \/ NetRemoveFromCircuitCall
  \/ SetNameCall
  \/ SetValueCall
  \/ SetAttributesCall
  \/ SerializeCall
  \/ LoadCall

InitLoad == InitCmp

SpecLoad == InitLoad /\ [][NextLoad]_vars

\* Any list, no command and an empty command stack.
InitUndo ==
  /\ InitCircuit({LibComponentA}, {[s \in Signals |-> NoNet]})
  /\ \E list \in Lists : InitCommands(list)

\* A list command that is called directly.
NextUndo ==
  \/ NewCmdCall
  \/ DeleteCmdCall
  \/ CmdExecuteCall
  \/ CmdUndoCall
  \/ CmdRedoCall

SpecUndo == InitUndo /\ [][NextUndo]_vars

\* List commands that are handed to the command stack.
NextStack ==
  \/ StackExecCmdCall
  \/ StackUndoCall
  \/ StackRedoCall
  \/ StackCmdExecuteCall

SpecStack == InitUndo /\ [][NextStack]_vars

\* Composite commands of list commands, MaxComposites of them at a time.
NextGroup ==
  \/ GroupBeginCall
  \/ GroupExecChildCall
  \/ GroupEndCall

InitGroup ==
  /\ InitCircuit({LibComponentA}, {[s \in Signals |-> NoNet]})
  /\ InitCommands(<<>>)

SpecGroup == InitGroup /\ [][NextGroup]_vars

\* ---------------------------------------------------------- error classes
\* A LogicError is a contract violation, a RuntimeError an operational
\* failure that is reported to the user.
IsFatal(err) == err = LogicError
IsRecoverable(err) == err = RuntimeError

\* ------------------------------------------------------------ properties
\* The visibility flags of all ERC messages.
ErcVisibility ==
  [cmp |-> <<mErcMsgCmp.required.visible, mErcMsgCmp.optional.visible>>,
   sig |-> [s \in Signals |-> <<mErcMsgSig[s].unconnected.visible,
                                mErcMsgSig[s].conflict.visible>>]]

\* The last call was method op of signal or net obj with argument arg.
LastCallWas(op, obj, arg) ==
  lastCall.op = op /\ lastCall.obj = obj /\ lastCall.arg = arg

\* C1: addToCircuit of a detached, unused instance that fails (registering
\* some signal instance with its net signal was refused) leaves the
\* component and every signal instance detached, every net's registered set
\* as before the call and every ERC message visibility as before the call.
C1_AddToCircuitAllOrNothing ==
  [][ (/\ lastCall'.op = "addToCircuit"
       /\ lastCall'.err # NoError
       /\ ~mIsAddedToCircuit
       /\ ~CmpIsUsed(Cur))
      => /\ ~mIsAddedToCircuit'
         /\ \A s \in Signals : ~sigIsAddedToCircuit'[s]
         /\ netRegisteredComponentSignals' = netRegisteredComponentSignals
         /\ ErcVisibility' = ErcVisibility ]_vars

\* A failed addToCircuit whose k-th signal (k > 1) was refused by its net
\* after the signals before it had been registered with theirs.
C1_Witness ==
  /\ lastCall.op = "addToCircuit" /\ lastCall.err # NoError
  /\ ~mIsAddedToCircuit
  /\ \E k \in Signals :
       /\ k > 1
       /\ sigNetSignal[k] # NoNet /\ ~netIsAddedToCircuit[sigNetSignal[k]]
       /\ \A j \in 1..(k-1) :
            sigNetSignal[j] # NoNet /\ netIsAddedToCircuit[sigNetSignal[j]]

\* C2: removeFromCircuit of an added instance that is in use (a registered
\* symbol or device, or a signal instance in use) fails with a recoverable
\* error and changes nothing of the component, its signals or the nets.
C2_RemoveInUseFailsUnchanged ==
  [][ (/\ lastCall'.op = "removeFromCircuit"
       /\ mIsAddedToCircuit
       /\ CmpIsUsed(Cur))
      => /\ IsRecoverable(lastCall'.err)
         /\ UNCHANGED <<cmpVars, sigVars, netVars>> ]_vars

\* A refused removeFromCircuit of an instance with one registered device.
C2_Witness ==
  /\ lastCall.op = "removeFromCircuit" /\ lastCall.err = RuntimeError
  /\ mIsAddedToCircuit
  /\ Len(mRegisteredDevices) = 1
  /\ \A s \in Signals : sigIsAddedToCircuit[s] /\ sigNetSignal[s] # NoNet

\* C3: setNetSignal(new) with new # current on an added signal without live
\* pin or pad: when it fails, the signal is in the old net's registered set
\* and connected to its nameChanged as before, its net is the old one, and
\* it is neither registered with nor connected to the new net.
C3_SetNetSignalRollback ==
  [][ \A s \in Signals, new \in Nets :
        (/\ lastCall'.op = "setNetSignal"
         /\ lastCall'.obj = s /\ lastCall'.arg = new
         /\ lastCall'.err # NoError
         /\ new # sigNetSignal[s]
         /\ sigIsAddedToCircuit[s]
         /\ ~ArePinsOrPadsUsed(Cur, s))
        => /\ sigNetSignal'[s] = sigNetSignal[s]
           /\ sigNetSignal[s] # NoNet =>
                /\ s \in netRegisteredComponentSignals'[sigNetSignal[s]]
                /\ connections'[s][sigNetSignal[s]] = 1
           /\ s \notin netRegisteredComponentSignals'[new]
           /\ connections'[s][new] = 0
           /\ netRegisteredComponentSignals' = netRegisteredComponentSignals
           /\ connections' = connections ]_vars

\* A failed setNetSignal from a bound net to a net that refuses the signal.
C3_Witness ==
  /\ lastCall.op = "setNetSignal" /\ lastCall.err # NoError
  /\ sigIsAddedToCircuit[lastCall.obj]
  /\ sigNetSignal[lastCall.obj] # NoNet
  /\ lastCall.arg # NoNet
  /\ lastCall.arg # sigNetSignal[lastCall.obj]
  /\ ~netIsAddedToCircuit[lastCall.arg]

\* C4 (as claimed): setNetSignal(new) with new # current on an added signal
\* with a connected pin or pad fails with a recoverable error and leaves the
\* binding, the nets' registered sets and the ERC messages unchanged.
C4_InUseFailsRecoverable ==
  [][ \A s \in Signals, new \in Nets \cup {NoNet} :
        (/\ lastCall'.op = "setNetSignal"
         /\ lastCall'.obj = s /\ lastCall'.arg = new
         /\ new # sigNetSignal[s]
         /\ sigIsAddedToCircuit[s]
         /\ ArePinsOrPadsUsed(Cur, s))
        => /\ IsRecoverable(lastCall'.err)
           /\ UNCHANGED <<sigNetSignal, netRegisteredComponentSignals,
                          mErcMsgSig, mErcMsgCmp>> ]_vars

\* C5: setNetSignal with the current net (or none for none) is a no-op in
\* every state: it returns normally, nothing of the component, the signals
\* or the nets (registries, connections, ERC messages) changes and no event
\* is emitted.
C5_SetSameNetSignalNoOp ==
  [][ (/\ lastCall'.op = "setNetSignal"
       /\ lastCall'.arg = sigNetSignal[lastCall'.obj])
      => /\ lastCall'.err = NoError
         /\ UNCHANGED <<cmpVars, sigVars, netVars>>
         /\ events' = <<>> ]_vars

\* A signal with a connected pin or pad was given the net it is bound to
\* (with a connected pin or pad no other setNetSignal returns normally).
C5_Witness ==
  /\ lastCall.op = "setNetSignal" /\ lastCall.err = NoError
  /\ lastCall.arg = sigNetSignal[lastCall.obj]
  /\ lastCall.arg # NoNet
  /\ ArePinsOrPadsUsed(Cur, lastCall.obj)
  /\ events = <<>>

\* C6: the unplaced-required-symbols message is visible iff the instance is
\* added and its unplaced-required count is > 0, the unplaced-optional one
\* iff the instance is added and its unplaced-optional count is > 0; with
\* 2 required items and none placed the required message is visible with
\* count 2, with both registered it is invisible.
C6_UnplacedSymbolsVisibility ==
  /\ mErcMsgCmp.required.visible
       <=> (mIsAddedToCircuit /\ GetUnplacedRequiredSymbolsCount(Cur) > 0)
  /\ mErcMsgCmp.optional.visible
       <=> (mIsAddedToCircuit /\ GetUnplacedOptionalSymbolsCount(Cur) > 0)
  /\ (/\ mLibComponent = LibComponentA /\ mIsAddedToCircuit
      /\ RegisteredItems(mRegisteredSymbols) = {})
     => /\ mErcMsgCmp.required.visible
        /\ mErcMsgCmp.required.msg[2] = 2
  /\ (/\ mLibComponent = LibComponentA /\ mIsAddedToCircuit
      /\ {1, 2} \subseteq RegisteredItems(mRegisteredSymbols))
     => ~mErcMsgCmp.required.visible

\* Both required items of component A have just been registered while the
\* optional one is unplaced.
C6_Witness ==
  /\ lastCall.op = "registerSymbol" /\ lastCall.err = NoError
  /\ mLibComponent = LibComponentA /\ mIsAddedToCircuit
  /\ RegisteredItems(mRegisteredSymbols) = {1, 2}
  /\ ~mErcMsgCmp.required.visible
  /\ mErcMsgCmp.optional.visible

\* C7: the unconnected-required-signal message of a signal instance is
\* visible iff the signal instance is added to the circuit, has no net
\* signal and its library signal is required.
C7_UnconnectedVisibility ==
  \A s \in Signals :
    mErcMsgSig[s].unconnected.visible
      <=> (/\ sigIsAddedToCircuit[s]
           /\ sigNetSignal[s] = NoNet
           /\ mLibComponent.signals[s].required)

\* A required signal was bound, its message invisible, and has just been
\* unbound by setNetSignal.
C7_Witness ==
  \E s \in Signals :
    /\ LastCallWas("setNetSignal", s, NoNet) /\ lastCall.err = NoError
    /\ sigIsAddedToCircuit[s] /\ sigNetSignal[s] = NoNet
    /\ mLibComponent.signals[s].required
    /\ mErcMsgSig[s].unconnected.visible

\* The forced net name of signal s after attribute substitution.
ForcedName(s) == GetForcedNetSignalName(Cur, s)

\* C8 (as claimed): the conflict message is visible iff the signal instance
\* is added, its library signal forces a net name and no net is bound or
\* the bound net's name differs from the forced name.
C8_ConflictVisibleAlsoUnbound ==
  \A s \in Signals :
    mErcMsgSig[s].conflict.visible
      <=> (/\ sigIsAddedToCircuit[s]
           /\ mLibComponent.signals[s].forced
           /\ (\/ sigNetSignal[s] = NoNet
               \/ netName[sigNetSignal[s]] # ForcedName(s)))

\* C8 (amended): the conflict message is visible iff the signal instance is
\* added, its library signal forces a net name, a net is bound and that
\* net's name differs from the forced name after attribute substitution; an
\* added signal with a forced net name and no net shows no conflict.
C8_ConflictVisibility ==
  \A s \in Signals :
    mErcMsgSig[s].conflict.visible
      <=> (/\ sigIsAddedToCircuit[s]
           /\ mLibComponent.signals[s].forced
           /\ sigNetSignal[s] # NoNet
           /\ netName[sigNetSignal[s]] # ForcedName(s))

\* An added signal with a forced net name and no net (no conflict shown),
\* reached by unbinding it.
C8_Witness ==
  \E s \in Signals :
    /\ LastCallWas("setNetSignal", s, NoNet) /\ lastCall.err = NoError
    /\ sigIsAddedToCircuit[s]
    /\ mLibComponent.signals[s].forced
    /\ sigNetSignal[s] = NoNet
    /\ ~mErcMsgSig[s].conflict.visible

\* C9: for an added signal with forced net name N bound to net n: while n
\* is named N the conflict message is invisible; a rename of n to another
\* name makes it visible in the state right after the rename, with the new
\* net name and N in its text; a rename (back) to N makes it invisible.
C9_RenameUpdatesConflict ==
  [][ \A s \in Signals :
        (/\ lastCall'.op = "netSetName" /\ lastCall'.err = NoError
         /\ sigIsAddedToCircuit[s]
         /\ mLibComponent.signals[s].forced
         /\ sigNetSignal[s] = lastCall'.obj)
        => /\ netName[sigNetSignal[s]] = ForcedName(s)
                => ~mErcMsgSig[s].conflict.visible
           /\ lastCall'.arg # ForcedName(s)
                => /\ mErcMsgSig'[s].conflict.visible
                   /\ mErcMsgSig'[s].conflict.msg[1] = lastCall'.arg
                   /\ mErcMsgSig'[s].conflict.msg[2] = ForcedName(s)
           /\ lastCall'.arg = ForcedName(s)
                => ~mErcMsgSig'[s].conflict.visible ]_vars

\* The net of a signal with forced net name "VCC" has just been renamed to
\* "PWR" and the conflict is shown with both names.
C9_Witness ==
  \E s \in Signals :
    /\ sigIsAddedToCircuit[s] /\ sigNetSignal[s] # NoNet
    /\ LastCallWas("netSetName", sigNetSignal[s], "PWR")
    /\ mLibComponent.signals[s].forced /\ ForcedName(s) = "VCC"
    /\ mErcMsgSig[s].conflict.visible
    /\ mErcMsgSig[s].conflict.msg[1] = "PWR"
    /\ mErcMsgSig[s].conflict.msg[2] = "VCC"

\* The items of the chosen symbol variant with isRequired() = required.
VariantItems(required) ==
  {i \in 1..Len(mLibComponent.symbItems) :
     mLibComponent.symbItems[i].required = required}
\* The registered symbols whose item has isRequired() = required.
RegisteredSymbolsOf(required) ==
  {sym \in RegisteredSymbolValues(mRegisteredSymbols) :
     ItemIsRequired(sym.item) = required}

\* C10: getUnplacedRequiredSymbolsCount is the number of required items of
\* the symbol variant minus the number of registered symbols whose item is
\* required, getUnplacedOptionalSymbolsCount the same for the items that
\* are not required, and neither is negative.
C10_UnplacedCounts ==
  /\ GetUnplacedRequiredSymbolsCount(Cur)
       = Cardinality(VariantItems(TRUE)) - Cardinality(RegisteredSymbolsOf(TRUE))
  /\ GetUnplacedOptionalSymbolsCount(Cur)
       = Cardinality(VariantItems(FALSE)) - Cardinality(RegisteredSymbolsOf(FALSE))
  /\ GetUnplacedRequiredSymbolsCount(Cur) >= 0
  /\ GetUnplacedOptionalSymbolsCount(Cur) >= 0

\* After registering symbols and unregistering one, one required and the
\* optional item of component A are placed and one required item is not.
C10_Witness ==
  /\ lastCall.op = "unregisterSymbol" /\ lastCall.err = NoError
  /\ mLibComponent = LibComponentA
  /\ Cardinality(RegisteredSymbolsOf(TRUE)) = 1
  /\ Cardinality(RegisteredSymbolsOf(FALSE)) = 1
  /\ GetUnplacedRequiredSymbolsCount(Cur) = 1
  /\ GetUnplacedOptionalSymbolsCount(Cur) = 0

\* The state st is detached as before any call: the component and every
\* signal instance are not added, no symbol and no device is registered,
\* every net's registered set is the current one, no ERC message is visible.
DetachedAsNow(st) ==
  /\ ~st.added
  /\ \A s \in Signals : ~st.sigAdded[s]
  /\ RegisteredItems(st.regSymbols) = {}
  /\ st.regDevices = <<>>
  /\ st.netReg = netRegisteredComponentSignals
  /\ ~st.ercCmp.required.visible /\ ~st.ercCmp.optional.visible
  /\ \A s \in Signals :
       ~st.ercSig[s].unconnected.visible /\ ~st.ercSig[s].conflict.visible

C12_SymbolsOnOneSchematic ==
  /\ [](\A x, y \in RegisteredSymbolValues(mRegisteredSymbols) :
          x.schematic = y.schematic)
  /\ [][ (/\ lastCall'.op = "registerSymbol"
          /\ \E x \in RegisteredSymbolValues(mRegisteredSymbols) :
               x.schematic # lastCall'.arg.schematic)
         => /\ IsRecoverable(lastCall'.err)
            /\ UNCHANGED <<mRegisteredSymbols, mErcMsgCmp, mErcMsgSig>> ]_vars

\* A symbol of a free item of the variant has just been refused because a
\* symbol on another schematic is registered.
C12_Witness ==
  /\ lastCall.op = "registerSymbol" /\ lastCall.err = RuntimeError
  /\ mIsAddedToCircuit
  /\ ItemExists(Cur, lastCall.arg.item)
  /\ lastCall.arg.item \notin RegisteredItems(mRegisteredSymbols)
  /\ \E x \in RegisteredSymbolValues(mRegisteredSymbols) :
       x.schematic # lastCall.arg.schematic

\* The original statement of C13: registerSymbol on a detached instance, of
\* a symbol whose item is not in the variant, or of a symbol whose item slot
\* is occupied is in each case a fatal contract violation.
C13_RegisterSymbolAllFatal ==
  [][ (/\ lastCall'.op = "registerSymbol"
       /\ \/ ~mIsAddedToCircuit
          \/ ~ItemExists(Cur, lastCall'.arg.item)
          \/ lastCall'.arg.item \in RegisteredItems(mRegisteredSymbols))
      => /\ IsFatal(lastCall'.err)
         /\ UNCHANGED mRegisteredSymbols ]_vars

\* C13: registerSymbol on an instance that is not added to the circuit is a
\* fatal contract violation; on an added instance, a symbol whose item does
\* not exist in the variant and a symbol whose item slot is occupied are
\* refused with a recoverable error.  In each case the registered symbols
\* are unchanged.
C13_RegisterSymbolPreconditions ==
  [][ (lastCall'.op = "registerSymbol")
      => /\ ~mIsAddedToCircuit
            => IsFatal(lastCall'.err) /\ UNCHANGED mRegisteredSymbols
         /\ (mIsAddedToCircuit /\ ~ItemExists(Cur, lastCall'.arg.item))
            => IsRecoverable(lastCall'.err) /\ UNCHANGED mRegisteredSymbols
         /\ (/\ mIsAddedToCircuit
             /\ lastCall'.arg.item \in RegisteredItems(mRegisteredSymbols))
            => IsRecoverable(lastCall'.err) /\ UNCHANGED mRegisteredSymbols ]_vars

\* A symbol on the schematic of the registered ones has just been refused
\* because a symbol is registered for its item of the variant.
C13_Witness ==
  /\ lastCall.op = "registerSymbol" /\ lastCall.err = RuntimeError
  /\ mIsAddedToCircuit
  /\ ItemExists(Cur, lastCall.arg.item)
  /\ lastCall.arg.item \in RegisteredItems(mRegisteredSymbols)
  /\ \A x \in RegisteredSymbolValues(mRegisteredSymbols) :
       x.schematic = lastCall.arg.schematic

\* C14: registerDevice is a fatal contract violation and leaves the device
\* list unchanged when the instance is not added to the circuit, the device
\* is already registered or the library component is schematic-only; so in
\* every reachable state a schematic-only instance has no registered device
\* and no device is twice in the list.
C14_RegisterDevicePreconditions ==
  /\ [][ (/\ lastCall'.op = "registerDevice"
          /\ \/ ~mIsAddedToCircuit
             \/ Contains(mRegisteredDevices, lastCall'.arg)
             \/ mLibComponent.schematicOnly)
         => /\ IsFatal(lastCall'.err)
            /\ UNCHANGED mRegisteredDevices ]_vars
  /\ [](mLibComponent.schematicOnly => mRegisteredDevices = <<>>)
  /\ [](\A i, j \in 1..Len(mRegisteredDevices) :
          mRegisteredDevices[i] = mRegisteredDevices[j] => i = j)

\* A registered device has just been refused a second registration while
\* another device is registered as well.
C14_Witness ==
  /\ lastCall.op = "registerDevice" /\ lastCall.err = LogicError
  /\ mIsAddedToCircuit /\ ~mLibComponent.schematicOnly
  /\ Contains(mRegisteredDevices, lastCall.arg)
  /\ Len(mRegisteredDevices) = NumDevices

\* C15: addToCircuit on an instance that is added or in use is a fatal
\* contract violation that changes no state; removeFromCircuit on an
\* instance that is not added is a fatal contract violation that changes no
\* state, whether the instance is in use or not: applied to the current
\* state with the added flag cleared, removeFromCircuit reports the missing
\* flag, not the use.
C15_AddRemovePreconditions ==
  /\ [][ (/\ lastCall'.op = "addToCircuit"
          /\ (mIsAddedToCircuit \/ CmpIsUsed(Cur)))
         => /\ IsFatal(lastCall'.err)
            /\ UNCHANGED <<cmpVars, sigVars, netVars, envVars>> ]_vars
  /\ [][ (lastCall'.op = "removeFromCircuit" /\ ~mIsAddedToCircuit)
         => /\ IsFatal(lastCall'.err)
            /\ UNCHANGED <<cmpVars, sigVars, netVars, envVars>> ]_vars
  /\ [](LET st == [Cur EXCEPT !.added = FALSE]
            r == CmpRemoveFromCircuit(st)
        IN IsFatal(r.err) /\ r.st = st)

\* addToCircuit has just been refused on an added instance with a
\* registered symbol.
C15_Witness ==
  /\ lastCall.op = "addToCircuit" /\ lastCall.err = LogicError
  /\ mIsAddedToCircuit
  /\ RegisteredItems(mRegisteredSymbols) # {}
  /\ CmpIsUsed(Cur)

\* All registration sets of the component and of its signal instances.
RegistrationSets ==
  <<mRegisteredSymbols, mRegisteredDevices, sigRegisteredSymbolPins,
    sigRegisteredFootprintPads>>

\* C16: on a component instance that is not added to the circuit every
\* registerSymbol, unregisterSymbol, registerDevice and unregisterDevice
\* call fails, and on a signal instance that is not added every
\* registerSymbolPin, unregisterSymbolPin, registerFootprintPad and
\* unregisterFootprintPad call fails; all registration sets stay unchanged.
C16_AddedGatesRegistration ==
  /\ [][ (/\ lastCall'.op \in {"registerSymbol", "unregisterSymbol",
                               "registerDevice", "unregisterDevice"}
          /\ ~mIsAddedToCircuit)
         => /\ lastCall'.err # NoError
            /\ UNCHANGED RegistrationSets ]_vars
  /\ [][ (/\ lastCall'.op \in {"registerSymbolPin", "unregisterSymbolPin",
                               "registerFootprintPad", "unregisterFootprintPad"}
          /\ ~sigIsAddedToCircuit[lastCall'.obj])
         => /\ lastCall'.err # NoError
            /\ UNCHANGED RegistrationSets ]_vars

\* A footprint pad has just been refused by a signal instance of an
\* instance that is not added to the circuit.
C16_Witness ==
  /\ lastCall.op = "registerFootprintPad" /\ lastCall.err # NoError
  /\ ~mIsAddedToCircuit
  /\ ~sigIsAddedToCircuit[lastCall.obj]
  /\ sigRegisteredFootprintPads[lastCall.obj] = <<>>

\* No list: the result of an undo that failed.
UndoFailed == <<0>>

\* The lists that result from executing, from `list`, any k commands in
\* order (each of any element and index, each executing successfully) and
\* undoing them in reverse order.
RECURSIVE RoundTripResults(_, _)
RoundTripResults(list, k) ==
  IF k = 0 THEN {list}
  ELSE UNION {
         LET r == Execute(list, CmdListElementInsert(element, index))
         IN IF r.err # NoError THEN {}
            ELSE { IF m = UndoFailed THEN UndoFailed
                   ELSE LET u == Undo(m, r.cmd)
                        IN IF u.err # NoError THEN UndoFailed ELSE u.list
                   : m \in RoundTripResults(r.list, k - 1) }
         : element \in Elements, index \in Indexes }

\* C17: on any list, for any element and any index (explicit or append),
\* execute followed by undo of a CmdListElementInsert restores the contents
\* and the order of the list; and any sequence of such commands executed in
\* order and undone in reverse order restores the list of before the first
\* execute.
C17_ExecuteUndoRestoresList ==
  \A k \in 1..NumElements : RoundTripResults(mList, k) \subseteq {mList}

\* A command has just been undone on a list with one element, on which
\* single commands and sequences of two commands execute: at the front, in
\* the middle, at the end and appended.
C17_Witness ==
  /\ lastCall.op = "cmdUndo" /\ lastCall.err = NoError
  /\ Len(mList) = 1
  /\ RoundTripResults(mList, 1) = {mList}
  /\ RoundTripResults(mList, 2) = {mList}
  /\ \A index \in {-1, 0, 1} :
       \E element \in Elements :
         Execute(mList, CmdListElementInsert(element, index)).err = NoError
  /\ \E e1, e2 \in Elements :
       LET r1 == Execute(mList, CmdListElementInsert(e1, -1))
           r2 == Execute(r1.list, CmdListElementInsert(e2, 1))
       IN r1.err = NoError /\ r2.err = NoError /\ r2.list[2] = e2

\* The list and the command after n cycles of undo and redo from r; any
\* failure ends the cycles with its error.
RECURSIVE UndoRedoCycles(_, _)
UndoRedoCycles(r, n) ==
  IF n = 0 \/ r.err # NoError THEN r
  ELSE LET u == Undo(r.list, r.cmd)
       IN IF u.err # NoError THEN u
          ELSE UndoRedoCycles(Redo(u.list, u.cmd), n - 1)

\* C18: execute resolves the index of a CmdListElementInsert, append to the
\* length of the list at that moment while an explicit index is kept; undo
\* and redo never change the recorded index; redo re-inserts the element at
\* that index; and execute followed by any number of cycles of undo and
\* redo yields the list and the command of after execute.
C18_IndexResolvedOnce ==
  /\ [][ \A c \in Cmds :
           (/\ lastCall'.op = "cmdExecute" /\ lastCall'.obj = c
            /\ cmds[c].state = "Initial")
           => cmds'[c].mIndex = IF cmds[c].mIndex < 0 THEN Len(mList)
                                ELSE cmds[c].mIndex ]_vars
  /\ [][ \A c \in Cmds :
           (lastCall'.op \in {"cmdUndo", "cmdRedo"} /\ lastCall'.obj = c)
           => cmds'[c].mIndex = cmds[c].mIndex ]_vars
  /\ [][ \A c \in Cmds :
           (/\ lastCall'.op = "cmdRedo" /\ lastCall'.obj = c
            /\ lastCall'.err = NoError)
           => mList'[cmds[c].mIndex + 1] = cmds[c].mElement ]_vars
  /\ [](\A element \in Elements, index \in Indexes, n \in 1..MaxCycles :
          LET r == Execute(mList, CmdListElementInsert(element, index))
          IN r.err = NoError => UndoRedoCycles(r, n) = r)

\* A command has just been redone and its element is back in the middle of
\* the list, at the recorded index.
C18_Witness ==
  \E c \in Cmds :
    /\ lastCall.op = "cmdRedo" /\ lastCall.obj = c /\ lastCall.err = NoError
    /\ cmds[c].state = "Executed"
    /\ cmds[c].mIndex = 1
    /\ Len(mList) = 3
    /\ mList[2] = cmds[c].mElement

\* C19: execute of a CmdListElementInsert either applies the insert, and
\* the command is Executed, or fails (the key of the element is in the list,
\* the index is out of range) and leaves the contents and the order of the
\* list as before, and the command is not Executed.
C19_ExecuteAllOrNothing ==
  [][ \A c \in Cmds :
        (/\ lastCall'.op = "cmdExecute" /\ lastCall'.obj = c
         /\ cmds[c].state = "Initial")
        => IF lastCall'.err = NoError
           THEN /\ cmds'[c].state = "Executed"
                /\ Len(mList') = Len(mList) + 1
                /\ mList'[cmds'[c].mIndex + 1] = cmds[c].mElement
                /\ \A i \in 1..Len(mList) :
                     mList[i] = mList'[IF i <= cmds'[c].mIndex THEN i ELSE i + 1]
           ELSE /\ mList' = mList
                /\ cmds'[c].state # "Executed" ]_vars

\* The execute of a command that appends an element whose key is in the
\* list, with other elements, has just failed.
C19_Witness ==
  \E c \in Cmds :
    /\ lastCall.op = "cmdExecute" /\ lastCall.obj = c
    /\ lastCall.err = RuntimeError
    /\ cmds[c].state = "Initial"
    /\ Contains(mList, cmds[c].mElement)
    /\ cmds[c].mIndex = Len(mList)
    /\ Len(mList) >= 2

\* The command objects of a state: the ones on the command stack and any
\* new one.
CommandObjects ==
  {stackCommands[i] : i \in 1..Len(stackCommands)}
    \cup {CmdListElementInsert(element, index) :
            element \in Elements, index \in Indexes}

\* The call with result r on command cmd was refused as a contract
\* violation and changed neither the list nor the command.
RefusedAsFatal(r, cmd) ==
  IsFatal(r.err) /\ r.list = mList /\ r.cmd = cmd

\* C20: the state of a command changes only from Initial to Executed (by
\* execute, and never back to Initial), from Executed to Undone (by undo)
\* and from Undone to Executed (by redo); execute on a command that is not
\* Initial, undo on one that is not Executed and redo on one that is not
\* Undone are fatal contract violations that change nothing; and the
\* operations of the command stack call execute only on an Initial command,
\* undo only on an Executed one and redo only on an Undone one.
C20_CommandTransitions ==
  /\ [](\A cmd \in CommandObjects :
          LET e == Execute(mList, cmd)
              u == Undo(mList, cmd)
              r == Redo(mList, cmd)
          IN /\ e.cmd.state \in {cmd.state}
                  \cup (IF cmd.state = "Initial" THEN {"Executed"} ELSE {})
             /\ u.cmd.state \in {cmd.state}
                  \cup (IF cmd.state = "Executed" THEN {"Undone"} ELSE {})
             /\ r.cmd.state \in {cmd.state}
                  \cup (IF cmd.state = "Undone" THEN {"Executed"} ELSE {})
             /\ cmd.state # "Initial" => RefusedAsFatal(e, cmd)
             /\ cmd.state # "Executed" => RefusedAsFatal(u, cmd)
             /\ cmd.state # "Undone" => RefusedAsFatal(r, cmd))
  /\ [][ (lastCall'.op = "cmdExecute")
         => /\ IsFatal(lastCall'.err)
            /\ UNCHANGED <<cmpVars, sigVars, netVars, envVars, cmdVars>> ]_vars
  /\ [][ (lastCall'.op = "stackUndo" /\ stackCursor > 0)
         => /\ stackCommands[stackCursor].state = "Executed"
            /\ stackCommands'[stackCursor].state = "Undone"
            /\ lastCall'.err = NoError ]_vars
  /\ [][ (lastCall'.op = "stackRedo" /\ stackCursor < Len(stackCommands))
         => /\ stackCommands[stackCursor + 1].state = "Undone"
            /\ stackCommands'[stackCursor + 1].state = "Executed"
            /\ lastCall'.err = NoError ]_vars
  /\ [][ (lastCall'.op = "stackExecCmd")
         => /\ ~IsFatal(lastCall'.err)
            /\ lastCall'.err = NoError
               => stackCommands'[stackCursor'].state = "Executed" ]_vars

\* execute has just been called on an Undone command of a command stack
\* that holds an Executed command as well, and was refused.
C20_Witness ==
  /\ lastCall.op = "cmdExecute" /\ lastCall.err = LogicError
  /\ Len(stackCommands) >= 2
  /\ stackCursor >= 1
  /\ stackCommands[lastCall.obj].state = "Undone"
  /\ stackCommands[1].state = "Executed"

\* ------------------------------------------------------------------- C21
\* C21: a composite command executes its children in order: a child that
\* succeeds is recorded after the children executed before it, and when a
\* child fails, at any position and at any nesting depth, the executed
\* children of all composites in execution are undone, the list is the one
\* the outermost composite started with, no composite is left in
\* execution, and the failure of the child propagates as it was raised.
C21_CompositeRollback ==
  [][lastCall'.op = "groupExecChild" =>
       LET n == Len(groupFrames)
       IN IF lastCall'.err = NoError
          THEN /\ Len(groupFrames') = n
               /\ \A i \in 1..(n - 1) : groupFrames'[i] = groupFrames[i]
               /\ Len(groupFrames'[n]) = Len(groupFrames[n]) + 1
               /\ SubSeq(groupFrames'[n], 1, Len(groupFrames[n]))
                    = groupFrames[n]
               /\ groupFrames'[n][Len(groupFrames'[n])].state = "Executed"
               /\ groupBefore' = groupBefore
          ELSE /\ mList' = groupBefore
               /\ groupFrames' = <<>>
               /\ IsRecoverable(lastCall'.err)]_vars

\* The second child of a composite nested in another one has failed, and
\* the list the outermost composite started with was not empty.
C21_Witness ==
  /\ lastCall.op = "groupExecChild"
  /\ lastCall.err # NoError
  /\ lastCall.obj = 2
  /\ lastCall.arg = 2
  /\ mList # <<>>

\* ------------------------------------------------------------------- C22
\* The commands right of the cursor, the next one to redo first.
RedoTail(commands, cursor) == SubSeq(commands, cursor + 1, Len(commands))

\* C22: a command that is pushed on the command stack discards the
\* commands right of the cursor: after the push the new command is the
\* last one, the commands left of it are the ones that were left of the
\* cursor, and redo() is a no-op. A discarded command cannot come back:
\* the commands right of the cursor only change by undo(), which prepends
\* the command it has undone, by redo(), which takes the first one, and by
\* a push, which leaves none.
C22_PushDiscardsRedoTail ==
  [][LET tail == RedoTail(stackCommands, stackCursor)
         tail2 == RedoTail(stackCommands', stackCursor')
     IN /\ (lastCall'.op = "stackExecCmd" /\ lastCall'.err = NoError) =>
             /\ tail2 = <<>>
             /\ stackCursor' = stackCursor + 1
             /\ SubSeq(stackCommands', 1, stackCursor)
                  = SubSeq(stackCommands, 1, stackCursor)
             /\ StackRedo(mList', stackCommands', stackCursor')
                  = StackState(mList', stackCommands', stackCursor', NoError)
        /\ tail2 # tail =>
             \/ /\ lastCall'.op = "stackExecCmd"
                /\ tail2 = <<>>
             \/ /\ lastCall'.op = "stackUndo"
                /\ tail2 = <<stackCommands'[stackCursor]>> \o tail
                /\ stackCommands[stackCursor].state = "Executed"
             \/ /\ lastCall'.op = "stackRedo"
                /\ tail2 = Tail(tail)]_vars

\* A command was pushed when two commands were right of the cursor.
C22_Witness ==
  /\ lastCall.op = "stackExecCmd"
  /\ lastCall.err = NoError
  /\ lastCall.obj = 2
  /\ stackCursor = Len(stackCommands)

\* ------------------------------------------------------------------- C23
\* The same command in another state.
SameCommand(c, d) == c.mElement = d.mElement /\ c.mIndex = d.mIndex

\* C23: the commands left of the cursor of the command stack are the ones
\* in state Executed and the commands right of it the ones in state
\* Undone; undo() with a command left of the cursor succeeds, moves the
\* cursor one step to the left and changes the state of that command only,
\* redo() with a command right of the cursor succeeds, moves the cursor one
\* step to the right and changes the state of that command only, and both
\* keep the commands and their order.
C23_CursorDividesStack ==
  /\ [](/\ stackCursor \in 0..Len(stackCommands)
        /\ \A i \in 1..Len(stackCommands) :
             stackCommands[i].state
               = IF i <= stackCursor THEN "Executed" ELSE "Undone")
  /\ [][/\ lastCall'.op = "stackUndo" =>
             /\ lastCall'.err = NoError
             /\ stackCursor' = IF stackCursor = 0 THEN 0 ELSE stackCursor - 1
        /\ lastCall'.op = "stackRedo" =>
             /\ lastCall'.err = NoError
             /\ stackCursor' = IF stackCursor = Len(stackCommands)
                               THEN stackCursor ELSE stackCursor + 1
        /\ lastCall'.op \in {"stackUndo", "stackRedo"} =>
             /\ Len(stackCommands') = Len(stackCommands)
             /\ \A i \in 1..Len(stackCommands) :
                  SameCommand(stackCommands'[i], stackCommands[i])]_vars

\* Three commands are on the command stack and redo() has moved the
\* cursor between the second and the third.
C23_Witness ==
  /\ lastCall.op = "stackRedo"
  /\ lastCall.err = NoError
  /\ Len(stackCommands) = 3
  /\ stackCursor = 2

\* ------------------------------------------------------------------- C24
\* The closures of sgl in the reverse order of their registration.
ReverseRegistration(sgl) == [i \in 1..Len(sgl) |-> sgl[Len(sgl) + 1 - i]]

\* Every closure of `order` run once, the first one first.
RECURSIVE RunEachOnce(_, _)
RunEachOnce(st, order) ==
  IF order = <<>> THEN st
  ELSE RunEachOnce(RunGuard(st, order[1]), Tail(order))

\* The closures registered by a loop over the signals that stopped with
\* loop.err: one per signal whose step succeeded, in the order of the
\* signals, and none for the signal whose step failed.
RegisteredAfterSuccess(loop, guards) ==
  /\ Len(loop.sgl) <= NumSignals
  /\ \A i \in 1..Len(loop.sgl) : loop.sgl[i] = guards[i]
  /\ (loop.err = NoError) = (Len(loop.sgl) = NumSignals)

C25_NoStaleMessageText ==
  /\ mErcMsgCmp.required.msg
       = <<mName, GetUnplacedRequiredSymbolsCount(Cur)>>
  /\ mErcMsgCmp.optional.msg
       = <<mName, GetUnplacedOptionalSymbolsCount(Cur)>>
  /\ \A s \in Signals :
       LET msg == mErcMsgSig[s].conflict.msg
       IN /\ msg[1] = IF sigNetSignal[s] # NoNet
                      THEN netName[sigNetSignal[s]] ELSE ""
          /\ msg[2] = GetForcedNetSignalName(Cur, s)
          /\ msg[4] = mName

\* The component was renamed after a symbol was registered, its forced net
\* name was set by an attribute, and the net signal of the signal instance
\* with the forced name was renamed after it was bound.
C25_Witness ==
  /\ lastCall.op = "netSetName"
  /\ mName # "U1"
  /\ mAttributes["KEY"] # NoAttr
  /\ RegisteredItems(mRegisteredSymbols) # {}
  /\ sigNetSignal[1] # NoNet
  /\ lastCall.obj = sigNetSignal[1]
  /\ netName[sigNetSignal[1]] # Constructed(mLibComponent, sigNetSignal).netName[sigNetSignal[1]]

\* ------------------------------------------------------------------- C26
\* A signal appears more than once in the "signal_map" childs.
SignalTwice(childs) ==
  \E i, j \in 1..Len(childs) :
    i < j /\ childs[i].comp_signal = childs[j].comp_signal

\* C26: an instance has one signal instance per signal of its library
\* component in every state; the construction from a node in which a
\* signal appears more than once, or whose number of signals is not the
\* number of signals of the library component, fails with a recoverable
\* error and constructs nothing; a construction that succeeds has read
\* every signal of the library component from exactly one child.
C26_OneSignalInstancePerSignal ==
  /\ [](/\ DOMAIN sigNetSignal = 1..Len(mLibComponent.signals)
        /\ DOMAIN sigIsAddedToCircuit = 1..Len(mLibComponent.signals)
        /\ DOMAIN mErcMsgSig = 1..Len(mLibComponent.signals))
  /\ [][lastCall'.op = "load" =>
          LET node == lastCall'.arg
              childs == node.signal_map
              lib == GetComponent(node.component)
          IN /\ (lib # NoComponent
                   /\ (SignalTwice(childs) \/ Len(childs) # Len(lib.signals)))
                  => /\ IsRecoverable(lastCall'.err)
                     /\ UNCHANGED <<cmpVars, sigVars, netVars, envVars>>
             /\ lastCall'.err = NoError =>
                  /\ mLibComponent' = lib
                  /\ \A s \in 1..Len(lib.signals) :
                       /\ Cardinality({i \in 1..Len(childs) :
                                         childs[i].comp_signal = s}) = 1
                       /\ \E i \in 1..Len(childs) :
                            /\ childs[i].comp_signal = s
                            /\ sigNetSignal'[s] = childs[i].netsignal]_vars

\* The construction from a node that has a child more than the library
\* component has signals, all of known signals and of nets of the circuit,
\* has failed.
C26_Witness ==
  /\ lastCall.op = "load"
  /\ lastCall.err = RuntimeError
  /\ GetComponent(lastCall.arg.component) # NoComponent
  /\ lastCall.arg.symbol_variant = 1
  /\ lastCall.arg.name # ""
  /\ Len(lastCall.arg.signal_map) = NumSignals + 1
  /\ \A i \in 1..Len(lastCall.arg.signal_map) :
       /\ lastCall.arg.signal_map[i].comp_signal \in Signals
       /\ lastCall.arg.signal_map[i].netsignal = NoNet

\* ------------------------------------------------------------------- C27
\* The nodes that serialize() can write for the instance of st: the childs
\* of the signal instances are written in the order of a hash table.
WrittenNodes(st) ==
  LET node == Serialize(st).node
      childs == node.signal_map
  IN {node} \cup {[node EXCEPT !.signal_map = Append(DropAt(childs, i), childs[i])] :
                    i \in 1..Len(childs)}

\* The instance constructed from node is the instance of st.
SameInstance(st, node) ==
  LET r == Deserialize(st, node)
  IN /\ r.err = NoError
     /\ r.st.uuid = st.uuid
     /\ r.st.lib = st.lib
     /\ r.st.symbVar = st.symbVar
     /\ r.st.name = st.name
     /\ r.st.value = st.value
     /\ r.st.attrs = st.attrs
     /\ \A s \in Signals :
          /\ CompSignal(r.st, s) = CompSignal(st, s)
          /\ r.st.sigNet[s] = st.sigNet[s]

\* Every signal instance is bound to no net or to a net of the circuit.
BoundInCircuit(st) ==
  \A s \in Signals : st.sigNet[s] # NoNet => st.netAdded[st.sigNet[s]]

OneAttributesChanged == <<[ev |-> "attributesChanged", src |-> 0]>>

\* Every signal instance has updated its ERC messages from the state st.
ObserversSaw(st) ==
  \A s \in Signals : st.ercSig[s] = SigUpdateErcMessages(st, s).ercSig[s]

AddedAndBoundTo(n) ==
  {s \in Signals : sigIsAddedToCircuit[s] /\ sigNetSignal[s] = n}

\* C29: in every reachable state the signal instances registered with a
\* net signal are the ones that are added to the circuit and whose net
\* signal it is; a signal instance that is not added to the circuit is
\* registered with no net signal.
C29_NetRegistryConsistent ==
  /\ \A n \in Nets : netRegisteredComponentSignals[n] = AddedAndBoundTo(n)
  /\ \A s \in Signals :
       ~sigIsAddedToCircuit[s] =>
         \A n \in Nets : s \notin netRegisteredComponentSignals[n]

\* A setNetSignal that was refused by the new net has left the signal
\* instance registered with the net it was bound to.
C29_Witness ==
  /\ lastCall.op = "setNetSignal"
  /\ lastCall.err # NoError
  /\ sigIsAddedToCircuit[lastCall.obj]
  /\ sigNetSignal[lastCall.obj] # NoNet
  /\ sigNetSignal[lastCall.obj] # lastCall.arg
  /\ lastCall.arg # NoNet
  /\ lastCall.obj \in netRegisteredComponentSignals[sigNetSignal[lastCall.obj]]

\* ------------------------------------------------------------------- C30
\* C30: in every reachable state, so after every addToCircuit and
\* removeFromCircuit of the component instance that has succeeded or
\* failed, every signal instance is added to the circuit exactly if the
\* component instance is.
C30_SignalsFollowComponent ==
  \A s \in Signals : sigIsAddedToCircuit[s] = mIsAddedToCircuit

\* addToCircuit has failed at a later signal after the first signal
\* instance had been added: all are detached again, as the component is.
C30_Witness ==
  /\ lastCall.op = "addToCircuit"
  /\ lastCall.err # NoError
  /\ ~mIsAddedToCircuit
  /\ SigAddToCircuit(Cur, 1).err = NoError
  /\ \A s \in Signals : ~sigIsAddedToCircuit[s]

\* ---------------------------------------------------------------------
\* A detached instance holds no registrations.

\* The component instance or one of its signal instances holds a
\* registration.
HoldsRegistrations ==
  \/ RegisteredItems(mRegisteredSymbols) # {}
  \/ mRegisteredDevices # <<>>
  \/ \E s \in Signals :
       sigRegisteredSymbolPins[s] # <<>> \/ sigRegisteredFootprintPads[s] # <<>>

\* C31: a component instance with a registered symbol or device is added
\* to the circuit, and a signal instance with a registered symbol pin or
\* footprint pad is added to the circuit, so an instance that reaches its
\* destructor detached holds no registrations.
C31_DetachedHasNoRegistrations ==
  /\ (RegisteredItems(mRegisteredSymbols) # {} \/ mRegisteredDevices # <<>>)
       => mIsAddedToCircuit
  /\ \A s \in Signals :
       (sigRegisteredSymbolPins[s] # <<>> \/ sigRegisteredFootprintPads[s] # <<>>)
         => sigIsAddedToCircuit[s]

\* removeFromCircuit was refused on an instance that holds registrations.
C31_Witness ==
  /\ lastCall.op = "removeFromCircuit"
  /\ lastCall.err # NoError
  /\ HoldsRegistrations
  /\ mIsAddedToCircuit

\* ---------------------------------------------------------------------
\* Registered symbols and the items of the symbol variant.

\* The uuids of the items of the chosen symbol variant.
VariantItemUuids ==
  {SymbolItems(Cur)[i].uuid : i \in 1..Len(SymbolItems(Cur))}

\* C32: every registered symbol sits in the slot of its own item, that
\* item belongs to the chosen symbol variant, and a registerSymbol call
\* succeeds only on a slot that holds no symbol, so at most one symbol is
\* registered per item; getUnplacedSymbolsCount is never negative and is
\* the sum of the required and the optional unplaced counts.
C32_RegisteredWithinVariant ==
  /\ [](/\ RegisteredItems(mRegisteredSymbols) \subseteq VariantItemUuids
        /\ \A u \in RegisteredItems(mRegisteredSymbols) :
             mRegisteredSymbols[u].item = u
        /\ GetUnplacedSymbolsCount(Cur) >= 0
        /\ GetUnplacedSymbolsCount(Cur)
             = GetUnplacedRequiredSymbolsCount(Cur)
               + GetUnplacedOptionalSymbolsCount(Cur))
  /\ [][ (lastCall'.op = "registerSymbol" /\ lastCall'.err = NoError)
         => /\ lastCall'.arg.item \notin RegisteredItems(mRegisteredSymbols)
            /\ RegisteredItems(mRegisteredSymbols')
                 = RegisteredItems(mRegisteredSymbols) \cup {lastCall'.arg.item} ]_vars

\* registerSymbol has just placed the last item of the three-item variant
\* of component A.
C32_Witness ==
  /\ lastCall.op = "registerSymbol" /\ lastCall.err = NoError
  /\ mLibComponent = LibComponentA
  /\ RegisteredItems(mRegisteredSymbols) = VariantItemUuids
  /\ GetUnplacedSymbolsCount(Cur) = 0

\* ---------------------------------------------------------------------
\* The nameChanged subscription follows the binding.

\* Signal instance s is connected exactly once to nameChanged of its
\* current net signal and not at all to any other net signal.
SubscribedToCurrentNetOnly(s) ==
  \A n \in Nets : connections[s][n] = (IF sigNetSignal[s] = n THEN 1 ELSE 0)

\* C33: in every state, so after every successful and every failed
\* setNetSignal, each signal instance is connected to nameChanged of
\* exactly its current net signal, once, and to no other; renaming a net
\* signal a signal instance is not bound to leaves the ERC messages of
\* that signal instance unchanged.
C33_SubscriptionFollowsBinding ==
  /\ [](\A s \in Signals : SubscribedToCurrentNetOnly(s))
  /\ [][ \A s \in Signals :
           (lastCall'.op = "netSetName" /\ lastCall'.obj # sigNetSignal[s])
             => mErcMsgSig'[s] = mErcMsgSig[s] ]_vars

\* A net signal was renamed while an added signal instance with a visible
\* net name conflict is bound to the other net signal: its message still
\* carries the name of its own net signal.
C33_Witness ==
  /\ lastCall.op = "netSetName" /\ lastCall.err = NoError
  /\ \E s \in Signals :
       /\ sigIsAddedToCircuit[s]
       /\ sigNetSignal[s] \notin {NoNet, lastCall.obj}
       /\ connections[s][lastCall.obj] = 0
       /\ mErcMsgSig[s].conflict.visible
       /\ mErcMsgSig[s].conflict.msg[1] = netName[sigNetSignal[s]]
       /\ netName[lastCall.obj] # netName[sigNetSignal[s]]

\* ---------------------------------------------------------------------
\* The name of a component instance is never empty.

\* Faulty variant of the constructor: the name is not checked.
ConstructAnyName(st, uuid, lib, symbVar, name) ==
  IF symbVar # lib.symbVar THEN Throw(st, RuntimeError)
  ELSE Ok(NewInstance(st, uuid, lib, symbVar, name, "",
                      [k \in AttrKeys |-> NoAttr], [s \in Signals |-> NoNet]))

\* ComponentInstance(circuit, cmp, symbVar, name), replacing the instance
\* of st: uuid is the random uuid, the value and the attributes are the
\* defaults of the library component (empty in the library of this model),
\* every signal instance is created without net signal.
Construct(st, uuid, lib, symbVar, name) ==
  IF name = "" THEN Throw(st, RuntimeError)
  ELSE IF symbVar # lib.symbVar THEN Throw(st, RuntimeError)
  ELSE Ok(NewInstance(st, uuid, lib, symbVar, name, "",
                      [k \in AttrKeys |-> NoAttr], [s \in Signals |-> NoNet]))

\* The instance, which is not part of the circuit, is destroyed and a new
\* one is constructed for a library component.
ConstructCall ==
  /\ ~mIsAddedToCircuit
  /\ ~CmpIsUsed(Cur)
  /\ \E uuid \in CmpUuids, lib \in LibComponents, symbVar \in SymbVarUuids,
        name \in CmpNames \cup {""} :
       Commit(Construct(Cur, uuid, lib, symbVar, name),
              Call("newInstance", uuid, name))

\* Instances are constructed, renamed, added to and removed from the
\* circuit while symbols are placed and attributes change.
NextName ==
  \/ ConstructCall
  \/ SetNameCall
  \/ SetAttributesCall
  \/ AddToCircuit
  \/ RemoveFromCircuit
  \/ RegisterSymbolCall
  \/ UnregisterSymbolCall

SpecName == InitCmp /\ [][NextName]_vars

\* C34: the name of the component instance is non-empty in every state;
\* constructing an instance with an empty name fails with a recoverable
\* error, and setName with an empty name fails with a recoverable error
\* that leaves the name and the ERC message texts unchanged and emits no
\* event.
C34_NameNeverEmpty ==
  /\ [](mName # "")
  /\ [][ (lastCall'.op = "newInstance" /\ lastCall'.arg = "")
         => /\ IsRecoverable(lastCall'.err)
            /\ Cur' = Cur ]_vars
  /\ [][ (lastCall'.op = "setName" /\ lastCall'.arg = "")
         => /\ IsRecoverable(lastCall'.err)
            /\ mName' = mName
            /\ mErcMsgCmp' = mErcMsgCmp
            /\ mErcMsgSig' = mErcMsgSig
            /\ events' = <<>> ]_vars

\* setName("") was refused on an added instance that was renamed before
\* and shows an ERC message carrying its name.
C34_Witness ==
  /\ lastCall.op = "setName" /\ lastCall.arg = "" /\ lastCall.err = RuntimeError
  /\ mIsAddedToCircuit
  /\ mName = "U2"
  /\ mErcMsgCmp.required.visible
  /\ mErcMsgCmp.required.msg[1] = "U2"
  /\ events = <<>>

\* ---------------------------------------------------------------------
\* setNetSignal on a signal instance that is not added to the circuit.

\* C35: setNetSignal on a signal instance that is not added to the circuit
\* fails with a fatal error, changing nothing, exactly when the requested
\* net signal differs from the current one; called with the current net
\* signal it returns without error, because the unchanged check comes
\* before the added check.
C35_DetachedSetNetSignal ==
  [][ \A s \in Signals :
        (/\ lastCall'.op = "setNetSignal"
         /\ lastCall'.obj = s
         /\ ~sigIsAddedToCircuit[s])
        => /\ IsFatal(lastCall'.err) <=> lastCall'.arg # sigNetSignal[s]
           /\ lastCall'.err = NoError <=> lastCall'.arg = sigNetSignal[s]
           /\ UNCHANGED <<cmpVars, sigVars, netVars>> ]_vars

\* A loaded signal instance that is bound to a net signal and not added to
\* the circuit was asked to change to another net signal and refused.
C35_Witness ==
  /\ lastCall.op = "setNetSignal" /\ lastCall.err = LogicError
  /\ ~sigIsAddedToCircuit[lastCall.obj]
  /\ ~ArePinsOrPadsUsed(Cur, lastCall.obj)
  /\ sigNetSignal[lastCall.obj] # NoNet
  /\ lastCall.arg \notin {NoNet, sigNetSignal[lastCall.obj]}

\* ---------------------------------------------------------------------
\* unregisterSymbol frees exactly the slot of the given symbol.

\* The symbols registerSymbol may find as mRegisteredSymbols.values().first()
\* in the state st.
FirstSymbols(st) ==
  IF RegisteredItems(st.regSymbols) = {} THEN {NoSymbol}
  ELSE RegisteredSymbolValues(st.regSymbols)

\* C36: unregisterSymbol succeeds exactly when the instance is added to the
\* circuit and the given symbol is the one registered for its item;
\* otherwise it fails with a fatal error and changes nothing.  On success
\* exactly that slot is freed, the other slots and the registered devices
\* are unchanged, and registerSymbol of the same symbol right afterwards
\* succeeds and restores the registered symbols and the ERC messages.
C36_UnregisterSymbolFrame ==
  [][ lastCall'.op = "unregisterSymbol" =>
        LET symbol == lastCall'.arg
            registered == /\ mIsAddedToCircuit
                          /\ mRegisteredSymbols[symbol.item] = symbol
        IN /\ lastCall'.err = NoError <=> registered
           /\ ~registered =>
                /\ IsFatal(lastCall'.err)
                /\ UNCHANGED <<cmpVars, sigVars, netVars>>
           /\ registered =>
                /\ mRegisteredSymbols'
                     = [mRegisteredSymbols EXCEPT ![symbol.item] = NoSymbol]
                /\ mRegisteredDevices' = mRegisteredDevices
                /\ \A first \in FirstSymbols(Cur') :
                     LET r == RegisterSymbol(Cur', symbol, first)
                     IN /\ r.err = NoError
                        /\ r.st.regSymbols = mRegisteredSymbols
                        /\ r.st.regDevices = mRegisteredDevices
                        /\ r.st.ercCmp = mErcMsgCmp
                        /\ r.st.ercSig = mErcMsgSig ]_vars

\* unregisterSymbol has freed the slot of a required item of component A
\* while the symbol of another item and a device stay registered.
C36_Witness ==
  /\ lastCall.op = "unregisterSymbol" /\ lastCall.err = NoError
  /\ mIsAddedToCircuit
  /\ mLibComponent = LibComponentA
  /\ ItemIsRequired(lastCall.arg.item)
  /\ mRegisteredSymbols[lastCall.arg.item] = NoSymbol
  /\ Cardinality(RegisteredItems(mRegisteredSymbols)) = 1
  /\ mRegisteredDevices # <<>>
  /\ mErcMsgCmp.required.visible

\* ---------------------------------------------------------------------
\* ControlPanel: the open project editors and library editors.

\* What the construction of a project and its editor can end with:
\* success, a UserCanceled exception, any other Exception.
Creations == {"ok", "canceled", "failed"}
UserCanceled == "UserCanceled"

\* A call of method `method` on the editor object `editor`.
OnEditor(method, editor) == [ev |-> method, src |-> editor]

\* new ProjectEditor / new LibraryEditor: an object that did not exist.
FreeEditors(objects, none) == {e \in Editors : objects[e] = none}
NewEditor(objects, none) ==
  CHOOSE e \in FreeEditors(objects, none) :
    \A other \in FreeEditors(objects, none) : e <= other

\* ControlPanel::getOpenProject
GetOpenProject(openEditors, filepath) == openEditors[ToUnique(filepath)]

\* Commit a call of the control panel: obj is the editor the call returned
\* or worked on, err the exception it caught and reported, called the
\* methods it called on editor objects.
CommitPanel(openProjects, projects, openLibraries, libraries, alive, call,
            err, called) ==
  /\ mOpenProjectEditors' = openProjects
  /\ projectEditors' = projects
  /\ mOpenLibraryEditors' = openLibraries
  /\ libraryEditors' = libraries
  /\ running' = alive
  /\ events' = called
  /\ lastCall' = [call EXCEPT !.err = err]
  /\ UNCHANGED <<cmpVars, sigVars, netVars, envVars, cmdVars, groupVars>>

\* ControlPanel::openProject(const FilePath&).  A call of
\* showAllRequiredEditors() on an editor whose project was deleted is
\* undefined: the process crashes or the call returns the editor.
OpenProjectCall ==
  /\ running
  /\ \E filepath \in ProjectPaths, creation \in Creations, crash \in BOOLEAN :
       LET editor == GetOpenProject(mOpenProjectEditors, filepath)
           call(returned) == Call("openProject", returned, filepath)
       IN IF editor = NoEditor
          THEN /\ ~crash
               /\ IF creation = "ok"
                  THEN /\ FreeEditors(projectEditors, NoObject) # {}
                       /\ LET new == NewEditor(projectEditors, NoObject)
                          IN CommitPanel(
                               [mOpenProjectEditors EXCEPT
                                  ![ToUnique(filepath)] = new],
                               [projectEditors EXCEPT
                                  ![new] = [state |-> "open",
                                            filepath |-> filepath]],
                               mOpenLibraryEditors, libraryEditors, TRUE,
                               call(new), NoError,
                               <<OnEditor("showAllRequiredEditors", new)>>)
                  ELSE CommitPanel(mOpenProjectEditors, projectEditors,
                                   mOpenLibraryEditors, libraryEditors, TRUE,
                                   call(NoEditor),
                                   IF creation = "canceled" THEN UserCanceled
                                   ELSE RuntimeError,
                                   <<>>)
          ELSE /\ creation = "ok"
               /\ crash => projectEditors[editor].state # "open"
               /\ CommitPanel(mOpenProjectEditors, projectEditors,
                              mOpenLibraryEditors, libraryEditors, ~crash,
                              call(IF crash THEN NoEditor ELSE editor), NoError,
                              <<OnEditor("showAllRequiredEditors", editor)>>)

\* ControlPanel::getOpenProject, called by a client.
GetOpenProjectCall ==
  /\ running
  /\ \E filepath \in ProjectPaths :
       CommitPanel(mOpenProjectEditors, projectEditors, mOpenLibraryEditors,
                   libraryEditors, TRUE,
                   Call("getOpenProject",
                        GetOpenProject(mOpenProjectEditors, filepath), filepath),
                   NoError, <<>>)

\* ControlPanel::projectEditorClosed for the sender `editor`: the entry
\* under the path of its project is removed, the project is deleted.
ProjectEditorClosed(openEditors, projects, editor) ==
  [openEditors |-> [openEditors EXCEPT ![projects[editor].filepath] = NoEditor],
   projects |-> [projects EXCEPT ![editor].state = "closed"]]

\* An open project editor is closed from its own window and emits
\* projectEditorClosed.
ProjectEditorClosedCall ==
  /\ running
  /\ \E editor \in Editors :
       /\ projectEditors[editor].state = "open"
       /\ LET r == ProjectEditorClosed(mOpenProjectEditors, projectEditors, editor)
          IN CommitPanel(r.openEditors, r.projects, mOpenLibraryEditors,
                         libraryEditors, TRUE,
                         Call("projectEditorClosed", editor,
                              projectEditors[editor].filepath),
                         NoError, <<>>)

\* ControlPanel::closeProject(const FilePath&, bool): closeAndDestroy() is
\* accepted or canceled by the user; on an editor whose project was
\* deleted the call is undefined (crash, or nothing happens).
CloseProjectCall ==
  /\ running
  /\ \E filepath \in ProjectPaths, accepted \in BOOLEAN, crash \in BOOLEAN :
       LET editor == GetOpenProject(mOpenProjectEditors, filepath)
           call == Call("closeProject", editor, filepath)
       IN IF editor = NoEditor
          THEN /\ ~accepted /\ ~crash
               /\ CommitPanel(mOpenProjectEditors, projectEditors,
                              mOpenLibraryEditors, libraryEditors, TRUE, call,
                              NoError, <<>>)
          ELSE IF projectEditors[editor].state # "open"
          THEN /\ ~accepted
               /\ CommitPanel(mOpenProjectEditors, projectEditors,
                              mOpenLibraryEditors, libraryEditors, ~crash, call,
                              NoError, <<OnEditor("closeAndDestroy", editor)>>)
          ELSE /\ ~crash
               /\ LET r == IF accepted
                           THEN ProjectEditorClosed(mOpenProjectEditors,
                                                    projectEditors, editor)
                           ELSE [openEditors |-> mOpenProjectEditors,
                                 projects |-> projectEditors]
                  IN CommitPanel(r.openEditors, r.projects, mOpenLibraryEditors,
                                 libraryEditors, TRUE, call, NoError,
                                 <<OnEditor("closeAndDestroy", editor)>>)

\* ControlPanel::openLibraryEditor.  show() on nullptr is undefined: the
\* process crashes in show(), or the three calls return.
OpenLibraryEditorCall ==
  /\ running
  /\ \E lib \in Libraries, creation \in {"ok", "failed"}, crash \in BOOLEAN :
       LET found == mOpenLibraryEditors[lib]
           create == found = NoEditor /\ creation = "ok"
           editor == IF found # NoEditor THEN found
                     ELSE IF creation = "ok"
                     THEN NewEditor(libraryEditors, "none")
                     ELSE NoEditor
       IN /\ found # NoEditor => creation = "ok"
          /\ create => FreeEditors(libraryEditors, "none") # {}
          /\ crash => editor = NoEditor
          /\ CommitPanel(
               mOpenProjectEditors, projectEditors,
               IF create THEN [mOpenLibraryEditors EXCEPT ![lib] = editor]
               ELSE mOpenLibraryEditors,
               IF create THEN [libraryEditors EXCEPT ![editor] = "open"]
               ELSE libraryEditors,
               ~crash,
               Call("openLibraryEditor", editor, lib),
               IF found = NoEditor /\ creation = "failed" THEN RuntimeError
               ELSE NoError,
               IF crash THEN <<OnEditor("show", editor)>>
               ELSE <<OnEditor("show", editor), OnEditor("raise", editor),
                      OnEditor("activateWindow", editor)>>)

\* ControlPanel::libraryEditorDestroyed for the sender `editor`, a library
\* editor that is being destroyed.
LibraryEditorDestroyedCall ==
  /\ running
  /\ \E editor \in Editors :
       /\ libraryEditors[editor] = "open"
       /\ \E lib \in Libraries : mOpenLibraryEditors[lib] = editor
       /\ CommitPanel(
            mOpenProjectEditors, projectEditors,
            LET library == CHOOSE lib \in Libraries :
                             mOpenLibraryEditors[lib] = editor
            IN [mOpenLibraryEditors EXCEPT ![library] = NoEditor],
            [libraryEditors EXCEPT ![editor] = "deleted"],
            TRUE, Call("libraryEditorDestroyed", editor, 0), NoError, <<>>)

NextPanel ==
  \/ OpenProjectCall
  \/ GetOpenProjectCall
  \/ ProjectEditorClosedCall
  \/ CloseProjectCall
  \/ OpenLibraryEditorCall
  \/ LibraryEditorDestroyedCall

\* The control panel of a running application; the circuit plays no part.
InitPanelSpec ==
  /\ InitCircuit({LibComponentA}, {[s \in Signals |-> NoNet]})
  /\ InitCommands(<<>>)

SpecPanel == InitPanelSpec /\ [][NextPanel]_vars

\* The open project editors.
OpenProjectEditors == {e \in Editors : projectEditors[e].state = "open"}

\* The control panel holds an entry for a project editor that was closed
\* and whose project was deleted.
RetainsClosedEditor ==
  \E key \in ProjectPaths :
    /\ mOpenProjectEditors[key] # NoEditor
    /\ projectEditors[mOpenProjectEditors[key]].state = "closed"

\* C37: no two open project editors have the same unique project file
\* path; openProject for a path that is already open creates no editor and
\* returns the existing one; after projectEditorClosed no entry holds the
\* closed editor and getOpenProject finds none for its path; no entry
\* ever holds a closed editor, so a later openProject creates a new one.
C37_OneEditorPerProject ==
  /\ [](\A e1, e2 \in OpenProjectEditors :
          ToUnique(projectEditors[e1].filepath)
            = ToUnique(projectEditors[e2].filepath) => e1 = e2)
  /\ [](~RetainsClosedEditor)
  /\ [][ (/\ lastCall'.op = "openProject"
          /\ GetOpenProject(mOpenProjectEditors, lastCall'.arg) # NoEditor)
         => /\ projectEditors' = projectEditors
            /\ lastCall'.obj = GetOpenProject(mOpenProjectEditors, lastCall'.arg) ]_vars
  /\ [][ lastCall'.op \in {"projectEditorClosed"}
         => /\ \A key \in ProjectPaths :
                 mOpenProjectEditors'[key] # lastCall'.obj
            /\ GetOpenProject(mOpenProjectEditors', lastCall'.arg) = NoEditor ]_vars

\* The methods the last call called on a null editor.
CalledOnNull == {i \in 1..Len(events) : events[i].src = NoEditor}

\* C38: an openLibraryEditor call for a library that has an editor creates
\* none; a call whose creation of the editor fails reports the error and
\* adds no entry; no call calls show(), raise() or activateWindow() on an
\* editor that does not exist.
C38_LibraryEditorExists ==
  [][ lastCall'.op = "openLibraryEditor" =>
        /\ mOpenLibraryEditors[lastCall'.arg] # NoEditor =>
             /\ libraryEditors' = libraryEditors
             /\ mOpenLibraryEditors' = mOpenLibraryEditors
        /\ IsRecoverable(lastCall'.err) =>
             mOpenLibraryEditors' = mOpenLibraryEditors
        /\ \A i \in 1..Len(events') :
             /\ events'[i].src # NoEditor
             /\ libraryEditors'[events'[i].src] = "open" ]_vars

====
